---- MODULE Spec2Model ----
(***************************************************************************)
(* Configuration integrity subsystem of the T16 firmware                   *)
(* (src/src/Libs/Validation): the triple-redundant storage cell, the       *)
(* configuration validator, the critical data protector with its three     *)
(* backing files, and the configuration transaction.                       *)
(*                                                                         *)
(* Objects are modelled with the fields of the C++ structures.  Wherever   *)
(* the code looks at raw memory (crc32 over sizeof(T) bytes, memcmp, file  *)
(* images) the model serialises the structure to its bytes first.          *)
(***************************************************************************)
EXTENDS Integers, Sequences, FiniteSets, Bags, TLC

(***************************************************************************)
(* Program constants                                                       *)
(***************************************************************************)
BANK_AMT == 4
NUM_CAL == 16
SCALE_LEN == 16
MAX_SCALE_NOTE_OFFSET == 24
MIN_FIRMWARE_VERSION == 102
FIRMWARE_VERSION == 102
ADC_MAX == 4095
MAGIC == 1412511299
CC_AMT == 8
MAX_SCALE_INDEX == 15
MAX_OCTAVE == 7
MAX_CC_ID == 127
MAX_SNAPSHOTS == 5
SNAPSHOT_INTERVAL == 3600000
MAX_RECOVERY_ATTEMPTS == 3
MAX_BOOT_FAILURES == 5
\* TLC's integers are 32-bit signed: the modelled checksum keeps 24 bits
CRC_MOD == 16777216

(***************************************************************************)
(* Bounds of the model                                                     *)
(***************************************************************************)
MaxGeneration == 3
MaxTx == 2

(***************************************************************************)
(* Raw memory: every T stored in a TripleRedundant<T> as its bytes         *)
(***************************************************************************)
U8Bytes(v) == <<v % 256>>

U32Bytes(v) == <<v % 256, (v \div 256) % 256, (v \div 65536) % 256, (v \div 16777216) % 256>>

BoolBytes(b) == <<IF b THEN 1 ELSE 0>>

ConfigurationData ==
    [version |-> 1, mode |-> 0, sensitivity |-> 1, brightness |-> 6, palette |-> 0,
     midi_trs |-> 0, trs_type |-> 0, passthrough |-> 0, midi_ble |-> 0,
     custom_scale1 |-> [i \in 1..SCALE_LEN |-> 0],
     custom_scale2 |-> [i \in 1..SCALE_LEN |-> 0],
     hasChanged |-> FALSE]

CalibrationData ==
    [minVal |-> [i \in 1..NUM_CAL |-> 0], maxVal |-> [i \in 1..NUM_CAL |-> 0]]

ConfigBytes(c) ==
    <<c.version, c.mode, c.sensitivity, c.brightness, c.palette,
      c.midi_trs, c.trs_type, c.passthrough, c.midi_ble>>
    \o [i \in 1..SCALE_LEN |-> (c.custom_scale1[i] + 256) % 256]
    \o [i \in 1..SCALE_LEN |-> (c.custom_scale2[i] + 256) % 256]
    \o BoolBytes(c.hasChanged)

CalibrationBytes(k) ==
    [i \in 1..(2 * NUM_CAL) |->
        LET v == k.minVal[(i + 1) \div 2] IN IF i % 2 = 1 THEN v % 256 ELSE (v \div 256) % 256]
    \o [i \in 1..(2 * NUM_CAL) |->
        LET v == k.maxVal[(i + 1) \div 2] IN IF i % 2 = 1 THEN v % 256 ELSE (v \div 256) % 256]

\* The bytes of a value of the template parameter T
Bytes(T, v) ==
    CASE T = "u8" -> U8Bytes(v)
      [] T = "u32" -> U32Bytes(v)
      [] T = "cfg" -> ConfigBytes(v)
      [] T = "cal" -> CalibrationBytes(v)

\* T{}
DefaultOf(T) ==
    CASE T = "u8" -> 0
      [] T = "u32" -> 0
      [] T = "cfg" -> ConfigurationData
      [] T = "cal" -> CalibrationData

(***************************************************************************)
(* crc32 is declared in DataIntegrity.hpp; its definition is not part of   *)
(* the sources.  It is modelled as a checksum of the bytes: the sum of the *)
(* bytes, each weighted by its position, reduced to CRC_MOD.  The sum is   *)
(* taken as the cardinality of the bag that holds byte i that many times.  *)
(***************************************************************************)
crc32Weight(i) == 1 + ((i * 613) % 8191)

crc32(data) ==
    BagCardinality([i \in 1..Len(data) |-> crc32Weight(i) * (data[i] + 1)]) % CRC_MOD

memcmp(T, a, b) == IF Bytes(T, a) = Bytes(T, b) THEN 0 ELSE 1

(***************************************************************************)
(* TripleRedundant<T>                                                      *)
(***************************************************************************)
updateChecksums(T, c) ==
    [c EXCEPT !.primaryChecksum = crc32(Bytes(T, c.primary)),
              !.backup1Checksum = crc32(Bytes(T, c.backup1)),
              !.backup2Checksum = crc32(Bytes(T, c.backup2))]

TripleRedundant(T) ==
    updateChecksums(T,
        [primary |-> DefaultOf(T), backup1 |-> DefaultOf(T), backup2 |-> DefaultOf(T),
         primaryChecksum |-> 0, backup1Checksum |-> 0, backup2Checksum |-> 0,
         generationCounter |-> 0])

\* generationCounter is a uint32_t; the guards of the actions keep it far
\* below the wrap
setValue(T, c, value) ==
    updateChecksums(T,
        [c EXCEPT !.primary = value, !.backup1 = value, !.backup2 = value,
                  !.generationCounter = c.generationCounter + 1])

repairFromPrimary(T, c) ==
    updateChecksums(T, [c EXCEPT !.backup1 = c.primary, !.backup2 = c.primary])

\* a repair that forgets the third slot
repairFromBackup1PrimaryOnly(T, c) ==
    updateChecksums(T, [c EXCEPT !.primary = c.backup1])

repairFromBackup1(T, c) ==
    updateChecksums(T, [c EXCEPT !.primary = c.backup1, !.backup2 = c.backup1])

repairFromBackup2(T, c) ==
    updateChecksums(T, [c EXCEPT !.primary = c.backup2, !.backup1 = c.backup2])

\* a check of the primary slot that accepts any checksum
primaryValidAlways(T, c) == c.primaryChecksum = c.primaryChecksum

primaryValid(T, c) == crc32(Bytes(T, c.primary)) = c.primaryChecksum

backup1Valid(T, c) == crc32(Bytes(T, c.backup1)) = c.backup1Checksum

backup2Valid(T, c) == crc32(Bytes(T, c.backup2)) = c.backup2Checksum

isCorrupted(T, c) == ~(primaryValid(T, c) /\ backup1Valid(T, c) /\ backup2Valid(T, c))

getValidCopyCount(T, c) ==
    (IF primaryValid(T, c) THEN 1 ELSE 0)
    + (IF backup1Valid(T, c) THEN 1 ELSE 0)
    + (IF backup2Valid(T, c) THEN 1 ELSE 0)

\* a vote that hands out the primary slot when no slot verifies, and stamps it
getMajorityValueVotedPrimary(T, c, pV, b1V, b2V) ==
    IF pV \/ b1V \/ b2V THEN [value |-> c.primary, self |-> c]
    ELSE [value |-> c.primary, self |-> repairFromPrimary(T, c)]

\* The body of getMajorityValue() after the three checksum comparisons:
\* pV, b1V and b2V are its locals primaryValid, backup1Valid, backup2Valid.
getMajorityValueVoted(T, c, pV, b1V, b2V) ==
    \* validCount == 0
    IF ~pV /\ ~b1V /\ ~b2V THEN [value |-> DefaultOf(T), self |-> c]
    ELSE IF pV /\ b1V /\ b2V /\ memcmp(T, c.primary, c.backup1) = 0
            /\ memcmp(T, c.primary, c.backup2) = 0
         THEN [value |-> c.primary, self |-> c]
    ELSE IF pV /\ b1V /\ memcmp(T, c.primary, c.backup1) = 0
         THEN [value |-> c.primary, self |-> c]
    ELSE IF pV /\ b2V /\ memcmp(T, c.primary, c.backup2) = 0
         THEN [value |-> c.primary, self |-> c]
    ELSE IF b1V /\ b2V /\ memcmp(T, c.backup1, c.backup2) = 0
         THEN [value |-> c.backup1, self |-> c]
    ELSE IF pV THEN [value |-> c.primary, self |-> repairFromPrimary(T, c)]
    ELSE IF b1V THEN [value |-> c.backup1, self |-> repairFromBackup1(T, c)]
    ELSE IF b2V THEN [value |-> c.backup2, self |-> repairFromBackup2(T, c)]
    ELSE [value |-> DefaultOf(T), self |-> c]

\* a read that takes the first slot whose checksum matches, without a vote
getMajorityValueFirstValid(T, c) ==
    IF primaryValid(T, c) THEN [value |-> c.primary, self |-> c]
    ELSE IF backup1Valid(T, c) THEN [value |-> c.backup1, self |-> c]
    ELSE IF backup2Valid(T, c) THEN [value |-> c.backup2, self |-> c]
    ELSE [value |-> DefaultOf(T), self |-> c]

\* getMajorityValue() is const in name only: the single-valid-copy branches
\* repair through const_cast.  value is what it returns, self the object
\* after the call.
getMajorityValue(T, c) ==
    getMajorityValueVoted(T, c, primaryValid(T, c), backup1Valid(T, c), backup2Valid(T, c))

(***************************************************************************)
(* ValidationResult (DataIntegrity.hpp)                                    *)
(***************************************************************************)
ValidationResult == [isValid |-> TRUE, errors |-> <<>>, warnings |-> <<>>]

addError(result, error) ==
    [result EXCEPT !.errors = Append(result.errors, error), !.isValid = FALSE]

addWarning(result, warning) ==
    [result EXCEPT !.warnings = Append(result.warnings, warning)]

canAutoFix(result) ==
    IF result.errors = <<>> THEN FALSE
    ELSE \A i \in 1..Len(result.errors) : result.errors[i].isAutoFixable

\* a ValidationErrorDetail, with the fields the code reads back
ErrorDetail(type, parameter, index, fixable) ==
    [type |-> type, bank |-> 0, parameter |-> parameter, index |-> index,
     isAutoFixable |-> fixable]

addErrorIf(cond, result, error) == IF cond THEN addError(result, error) ELSE result

(***************************************************************************)
(* ConfigurationValidator                                                  *)
(***************************************************************************)
clampToRange(value, min, max) ==
    IF value < min THEN min ELSE IF value > max THEN max ELSE value

isValidScaleNote(note) ==
    note >= -MAX_SCALE_NOTE_OFFSET /\ note <= MAX_SCALE_NOTE_OFFSET

validateBasicRanges(config, result) ==
    addErrorIf(config.palette >= BANK_AMT, result,
               ErrorDetail("OUT_OF_RANGE", "palette", 0, TRUE))

RECURSIVE validateCustomScaleFrom(_, _, _, _)
validateCustomScaleFrom(scale, scaleNum, i, result) ==
    IF i > SCALE_LEN THEN result
    ELSE validateCustomScaleFrom(scale, scaleNum, i + 1,
            addErrorIf(~isValidScaleNote(scale[i]), result,
                ErrorDetail("INVALID_SCALE_NOTE",
                            IF scaleNum = 1 THEN "custom_scale1" ELSE "custom_scale2",
                            i - 1, TRUE)))

\* static_cast<int8_t>(0xFF) is -1
validateCustomScale(scale, scaleNum, context) ==
    IF scale[1] = -1 THEN ValidationResult
    ELSE validateCustomScaleFrom(scale, scaleNum, 1, ValidationResult)

\* The two assignments at the end replace the result built so far: what is
\* returned is the result of validateCustomScale on custom_scale2.
validateConfiguration(config, context) ==
    IF context.level = "BASIC"
    THEN addErrorIf(config.version < MIN_FIRMWARE_VERSION, ValidationResult,
                    ErrorDetail("FIRMWARE_TOO_OLD", "", 0, FALSE))
    ELSE
    LET r0 == validateBasicRanges(config, ValidationResult)
        r1 == addErrorIf(config.mode > 4, r0, ErrorDetail("OUT_OF_RANGE", "mode", 0, TRUE))
        r2 == addErrorIf(config.sensitivity > 4, r1,
                         ErrorDetail("OUT_OF_RANGE", "sensitivity", 0, TRUE))
        r3 == addErrorIf(config.brightness > 15, r2,
                         ErrorDetail("OUT_OF_RANGE", "brightness", 0, TRUE))
        r4 == addErrorIf(config.midi_trs > 1, r3,
                         ErrorDetail("OUT_OF_RANGE", "midi_trs", 0, TRUE))
        r5 == addErrorIf(config.trs_type > 1, r4,
                         ErrorDetail("OUT_OF_RANGE", "trs_type", 0, TRUE))
        r6 == addErrorIf(config.passthrough > 1, r5,
                         ErrorDetail("OUT_OF_RANGE", "passthrough", 0, TRUE))
        r7 == addErrorIf(config.midi_ble > 1, r6,
                         ErrorDetail("OUT_OF_RANGE", "midi_ble", 0, TRUE))
        r8 == validateCustomScale(config.custom_scale1, 1, context)
        r9 == validateCustomScale(config.custom_scale2, 2, context)
    IN  r9

RECURSIVE validateCalibrationFrom(_, _, _, _)
validateCalibrationFrom(calibration, numKeys, i, result) ==
    IF ~(i < numKeys /\ i < 16) THEN result
    ELSE
    LET min == calibration.minVal[i + 1]
        max == calibration.maxVal[i + 1]
        ra == addErrorIf(min > max, result,
                         ErrorDetail("OUT_OF_RANGE", "calibration", i, FALSE))
        rb == addErrorIf(max > ADC_MAX, ra,
                         ErrorDetail("OUT_OF_RANGE", "calibration_max", i, TRUE))
        range == (max - min + 65536) % 65536
        rc == IF range < 100 /\ max > 0
              THEN addWarning(rb, [type |-> "UNKNOWN_PARAMETER", parameter |-> "calibration",
                                   index |-> i])
              ELSE rb
    IN  validateCalibrationFrom(calibration, numKeys, i + 1, rc)

validateCalibrationData(calibration, context) ==
    LET numKeys == IF context.variant = "T32" THEN 32
                   ELSE IF context.variant = "T64" THEN 64 ELSE 16
    IN  validateCalibrationFrom(calibration, numKeys, 0, ValidationResult)

\* one pass of the loop body of autoFixConfiguration: [config, fixed]
autoFixConfigurationStep(acc, error) ==
    LET config == acc.config
        p == error.parameter
    IN  IF ~error.isAutoFixable THEN acc
        ELSE IF p = "mode"
             THEN [config |-> [config EXCEPT !.mode = clampToRange(config.mode, 0, 4)],
                   fixed |-> TRUE]
        ELSE IF p = "sensitivity"
             THEN [config |-> [config EXCEPT !.sensitivity = clampToRange(config.sensitivity, 0, 4)],
                   fixed |-> TRUE]
        ELSE IF p = "brightness"
             THEN [config |-> [config EXCEPT !.brightness = clampToRange(config.brightness, 0, 15)],
                   fixed |-> TRUE]
        ELSE IF p = "palette"
             THEN [config |-> [config EXCEPT !.palette = clampToRange(config.palette, 0, BANK_AMT - 1)],
                   fixed |-> TRUE]
        ELSE IF p = "midi_trs"
             THEN [config |-> [config EXCEPT !.midi_trs = clampToRange(config.midi_trs, 0, 1)],
                   fixed |-> TRUE]
        ELSE IF p = "trs_type"
             THEN [config |-> [config EXCEPT !.trs_type = clampToRange(config.trs_type, 0, 1)],
                   fixed |-> TRUE]
        ELSE IF p = "passthrough"
             THEN [config |-> [config EXCEPT !.passthrough = clampToRange(config.passthrough, 0, 1)],
                   fixed |-> TRUE]
        ELSE IF p = "midi_ble"
             THEN [config |-> [config EXCEPT !.midi_ble = clampToRange(config.midi_ble, 0, 1)],
                   fixed |-> TRUE]
        ELSE acc

RECURSIVE autoFixConfigurationFrom(_, _, _)
autoFixConfigurationFrom(acc, errors, i) ==
    IF i > Len(errors) THEN acc
    ELSE autoFixConfigurationFrom(autoFixConfigurationStep(acc, errors[i]), errors, i + 1)

\* ret is the returned bool, config the argument after the call
autoFixConfiguration(config, result) ==
    IF ~canAutoFix(result) THEN [ret |-> FALSE, config |-> config]
    ELSE LET acc == autoFixConfigurationFrom([config |-> config, fixed |-> FALSE],
                                             result.errors, 1)
         IN  [ret |-> acc.fixed, config |-> [acc.config EXCEPT !.hasChanged = acc.fixed]]

\* an error of a bank validator: the location names the bank
BankErrorDetail(type, bank, parameter, index) ==
    [type |-> type, bank |-> bank, parameter |-> parameter, index |-> index,
     isAutoFixable |-> TRUE]

isValidMidiChannel(channel) == channel >= 1 /\ channel <= 16

isValidScale(scale) == scale <= MAX_SCALE_INDEX

isValidOctave(octave) == octave <= MAX_OCTAVE

isValidCCId(ccId) == ccId <= MAX_CC_ID

isValidVelocityCurve(curve) == curve <= 3

isValidAftertouchCurve(curve) == curve <= 3

\* KeyModeData{}; koala_mode is the member the validator and the recovery
\* system read and write
KeyModeData ==
    [palette |-> 0, channel |-> 1, scale |-> 0, base_octave |-> 0, base_note |-> 24,
     velocity_curve |-> 1, aftertouch_curve |-> 1, flip_x |-> 0, flip_y |-> 0,
     koala_mode |-> 0, hasChanged |-> FALSE]

\* ControlChangeData{}: the arrays have no initializer and are zeroed
ControlChangeData ==
    [channel |-> [i \in 1..CC_AMT |-> 0], id |-> [i \in 1..CC_AMT |-> 0],
     hasChanged |-> FALSE]

validateKeyModeData(kb, bank, context) ==
    LET r1 == addErrorIf(~isValidMidiChannel(kb.channel), ValidationResult,
                         BankErrorDetail("INVALID_MIDI_CHANNEL", bank, "channel", 0))
        r2 == addErrorIf(~isValidScale(kb.scale), r1,
                         BankErrorDetail("INVALID_SCALE", bank, "scale", 0))
        r3 == addErrorIf(~isValidOctave(kb.base_octave), r2,
                         BankErrorDetail("INVALID_OCTAVE", bank, "base_octave", 0))
        r4 == addErrorIf(kb.base_note > 127, r3,
                         BankErrorDetail("OUT_OF_RANGE", bank, "base_note", 0))
        r5 == addErrorIf(~isValidVelocityCurve(kb.velocity_curve), r4,
                         BankErrorDetail("OUT_OF_RANGE", bank, "velocity_curve", 0))
        r6 == addErrorIf(~isValidAftertouchCurve(kb.aftertouch_curve), r5,
                         BankErrorDetail("OUT_OF_RANGE", bank, "aftertouch_curve", 0))
        r7 == addErrorIf(kb.flip_x > 1, r6,
                         BankErrorDetail("OUT_OF_RANGE", bank, "flip_x", 0))
        r8 == addErrorIf(kb.flip_y > 1, r7,
                         BankErrorDetail("OUT_OF_RANGE", bank, "flip_y", 0))
        r9 == addErrorIf(kb.koala_mode > 1, r8,
                         BankErrorDetail("OUT_OF_RANGE", bank, "koala_mode", 0))
    IN  addErrorIf(kb.koala_mode # 0 /\ context.variant # "T16", r9,
                   BankErrorDetail("HARDWARE_INCOMPATIBLE", bank, "koala_mode", 0))

\* the loop of validateControlChangeData from index i on; usedCCs is the set
\* of the ids seen so far
RECURSIVE validateControlChangeFrom(_, _, _, _, _, _)
validateControlChangeFrom(cc, bank, context, i, usedCCs, result) ==
    IF i >= CC_AMT THEN result
    ELSE
    LET ra == addErrorIf(~isValidMidiChannel(cc.channel[i + 1]), result,
                         BankErrorDetail("INVALID_MIDI_CHANNEL", bank, "cc_channel", i))
        rb == addErrorIf(~isValidCCId(cc.id[i + 1]), ra,
                         BankErrorDetail("INVALID_CC_ID", bank, "cc_id", i))
        rc == IF context.level = "COMPREHENSIVE" /\ cc.id[i + 1] \in usedCCs
              THEN addWarning(rb, [type |-> "DUPLICATE_CC_ID", parameter |-> "cc_id",
                                   index |-> i])
              ELSE rb
    IN  validateControlChangeFrom(cc, bank, context, i + 1,
            IF context.level = "COMPREHENSIVE" THEN usedCCs \cup {cc.id[i + 1]} ELSE usedCCs,
            rc)

validateControlChangeData(cc, bank, context) ==
    validateControlChangeFrom(cc, bank, context, 0, {}, ValidationResult)

\* one pass of the loop body of autoFixKeyModeData: [kb, fixed]
autoFixKeyModeDataStep(acc, error) ==
    LET kb == acc.kb
        p == error.parameter
        done(k) == [kb |-> k, fixed |-> TRUE]
    IN  IF ~error.isAutoFixable THEN acc
        ELSE IF p = "channel"
             THEN done([kb EXCEPT !.channel = clampToRange(kb.channel, 1, 16)])
        ELSE IF p = "scale"
             THEN done([kb EXCEPT !.scale = clampToRange(kb.scale, 0, 15)])
        ELSE IF p = "base_octave"
             THEN done([kb EXCEPT !.base_octave = clampToRange(kb.base_octave, 0, 7)])
        ELSE IF p = "base_note"
             THEN done([kb EXCEPT !.base_note = clampToRange(kb.base_note, 0, 127)])
        ELSE IF p = "velocity_curve"
             THEN done([kb EXCEPT !.velocity_curve = clampToRange(kb.velocity_curve, 0, 3)])
        ELSE IF p = "aftertouch_curve"
             THEN done([kb EXCEPT !.aftertouch_curve = clampToRange(kb.aftertouch_curve, 0, 3)])
        ELSE IF p = "flip_x"
             THEN done([kb EXCEPT !.flip_x = clampToRange(kb.flip_x, 0, 1)])
        ELSE IF p = "flip_y"
             THEN done([kb EXCEPT !.flip_y = clampToRange(kb.flip_y, 0, 1)])
        ELSE IF p = "koala_mode"
             THEN done([kb EXCEPT !.koala_mode = 0])
        ELSE acc

RECURSIVE autoFixKeyModeDataFrom(_, _, _)
autoFixKeyModeDataFrom(acc, errors, i) ==
    IF i > Len(errors) THEN acc
    ELSE autoFixKeyModeDataFrom(autoFixKeyModeDataStep(acc, errors[i]), errors, i + 1)

\* ret is the returned bool, kb the argument after the call
autoFixKeyModeDataFixed(acc) ==
    [ret |-> acc.fixed, kb |-> [acc.kb EXCEPT !.hasChanged = acc.fixed]]

autoFixKeyModeData(kb, result) ==
    IF ~canAutoFix(result) THEN [ret |-> FALSE, kb |-> kb]
    ELSE autoFixKeyModeDataFixed(
            autoFixKeyModeDataFrom([kb |-> kb, fixed |-> FALSE], result.errors, 1))

\* one pass of the loop body of autoFixControlChangeData: [cc, fixed]
autoFixControlChangeDataStep(acc, error) ==
    LET cc == acc.cc
        p == error.parameter
        idx == error.index
    IN  IF ~error.isAutoFixable THEN acc
        ELSE IF p = "cc_channel" /\ idx < CC_AMT
             THEN [cc |-> [cc EXCEPT !.channel[idx + 1] = clampToRange(@, 1, 16)],
                   fixed |-> TRUE]
        ELSE IF p = "cc_id" /\ idx < CC_AMT
             THEN [cc |-> [cc EXCEPT !.id[idx + 1] = clampToRange(@, 0, 127)],
                   fixed |-> TRUE]
        ELSE acc

RECURSIVE autoFixControlChangeDataFrom(_, _, _)
autoFixControlChangeDataFrom(acc, errors, i) ==
    IF i > Len(errors) THEN acc
    ELSE autoFixControlChangeDataFrom(autoFixControlChangeDataStep(acc, errors[i]),
                                      errors, i + 1)

\* ret is the returned bool, cc the argument after the call
autoFixControlChangeDataFixed(acc) ==
    [ret |-> acc.fixed, cc |-> [acc.cc EXCEPT !.hasChanged = acc.fixed]]

autoFixControlChangeData(cc, result) ==
    IF ~canAutoFix(result) THEN [ret |-> FALSE, cc |-> cc]
    ELSE autoFixControlChangeDataFixed(
            autoFixControlChangeDataFrom([cc |-> cc, fixed |-> FALSE], result.errors, 1))

(***************************************************************************)
(* CriticalDataProtector: the aggregate                                    *)
(***************************************************************************)
\* the bytes of one TripleRedundant<T> member
CellBytes(T, c) ==
    Bytes(T, c.primary) \o Bytes(T, c.backup1) \o Bytes(T, c.backup2)
    \o U32Bytes(c.primaryChecksum) \o U32Bytes(c.backup1Checksum)
    \o U32Bytes(c.backup2Checksum) \o U32Bytes(c.generationCounter)

\* the first offsetof(CriticalData, structureChecksum) bytes
StructureBytes(data) ==
    CellBytes("cal", data.calibration) \o CellBytes("cfg", data.configuration)
    \o CellBytes("u32", data.deviceSerial) \o CellBytes("u8", data.firmwareVersion)

CriticalData ==
    [calibration |-> TripleRedundant("cal"), configuration |-> TripleRedundant("cfg"),
     deviceSerial |-> TripleRedundant("u32"), firmwareVersion |-> TripleRedundant("u8"),
     structureChecksum |-> 0, magic |-> MAGIC]

updateStructureChecksum(data) ==
    [data EXCEPT !.structureChecksum = crc32(StructureBytes(data))]

verifyStructureChecksum(data) ==
    crc32(StructureBytes(data)) = data.structureChecksum

getFactoryConfiguration ==
    [version |-> 102, mode |-> 0, sensitivity |-> 1, brightness |-> 6, palette |-> 0,
     midi_trs |-> 0, trs_type |-> 0, passthrough |-> 0, midi_ble |-> 0,
     custom_scale1 |-> [i \in 1..SCALE_LEN |-> i - 1],
     custom_scale2 |-> [i \in 1..SCALE_LEN |-> i - 1],
     hasChanged |-> FALSE]

getFactoryCalibration ==
    [minVal |-> [i \in 1..NUM_CAL |-> 0], maxVal |-> [i \in 1..NUM_CAL |-> ADC_MAX]]

\* the constructor
CriticalDataProtector ==
    updateStructureChecksum(
        [CriticalData EXCEPT
            !.configuration = setValue("cfg", @, getFactoryConfiguration),
            !.calibration = setValue("cal", @, getFactoryCalibration),
            !.deviceSerial = setValue("u32", @, 0),
            !.firmwareVersion = setValue("u8", @, FIRMWARE_VERSION)])

\* The getters read through getMajorityValue, which may repair the cell:
\* value is what is returned, criticalData the aggregate after the call.
\* r is what getMajorityValue gave for the member.
configurationRead(data, r) ==
    [value |-> r.value, criticalData |-> [data EXCEPT !.configuration = r.self]]

getConfiguration(data) ==
    configurationRead(data, getMajorityValue("cfg", data.configuration))

calibrationRead(data, r) ==
    [value |-> r.value, criticalData |-> [data EXCEPT !.calibration = r.self]]

getCalibration(data) ==
    calibrationRead(data, getMajorityValue("cal", data.calibration))

deviceSerialRead(data, r) ==
    [value |-> r.value, criticalData |-> [data EXCEPT !.deviceSerial = r.self]]

getDeviceSerial(data) ==
    deviceSerialRead(data, getMajorityValue("u32", data.deviceSerial))

firmwareVersionRead(data, r) ==
    [value |-> r.value, criticalData |-> [data EXCEPT !.firmwareVersion = r.self]]

getFirmwareVersion(data) ==
    firmwareVersionRead(data, getMajorityValue("u8", data.firmwareVersion))

\* the context built around the result r of getFirmwareVersion()
ValidationContext(r) ==
    [value |-> [variant |-> "T16", firmwareVersion |-> r.value, strictMode |-> TRUE,
                level |-> "COMPREHENSIVE"],
     criticalData |-> r.criticalData]

getCurrentContext(data) == ValidationContext(getFirmwareVersion(data))

verifyIntegrity(data) ==
    /\ verifyStructureChecksum(data)
    /\ ~isCorrupted("cfg", data.configuration)
    /\ ~isCorrupted("cal", data.calibration)
    /\ ~isCorrupted("u32", data.deviceSerial)
    /\ ~isCorrupted("u8", data.firmwareVersion)

getCorruptionLevel(data) ==
    (3 - getValidCopyCount("cfg", data.configuration))
    + (3 - getValidCopyCount("cal", data.calibration))
    + (3 - getValidCopyCount("u32", data.deviceSerial))
    + (3 - getValidCopyCount("u8", data.firmwareVersion))

\* "good = cell.getMajorityValue(); cell.setValue(good);" with r the result
\* of the getMajorityValue
setMajorityValue(T, r) == setValue(T, r.self, r.value)

\* one "if (cell.isCorrupted()) { ... }" of repairCorruption
repairCell(T, c) ==
    IF isCorrupted(T, c) THEN setMajorityValue(T, getMajorityValue(T, c)) ELSE c

\* the end of repairCorruption: d is the aggregate after the four repairs
repairCorruptionEnd(repaired, d) ==
    [ret |-> TRUE, criticalData |-> IF repaired THEN updateStructureChecksum(d) ELSE d]

repairCorruption(data) ==
    repairCorruptionEnd(
        \/ isCorrupted("cfg", data.configuration)
        \/ isCorrupted("cal", data.calibration)
        \/ isCorrupted("u32", data.deviceSerial)
        \/ isCorrupted("u8", data.firmwareVersion),
        [data EXCEPT !.configuration = repairCell("cfg", @),
                     !.calibration = repairCell("cal", @),
                     !.deviceSerial = repairCell("u32", @),
                     !.firmwareVersion = repairCell("u8", @)])

\* the setValue calls of factoryReset: d is the aggregate after the reads
factoryResetTo(d, calibrationToUse, serial) ==
    updateStructureChecksum(
        [d EXCEPT !.configuration = setValue("cfg", @, getFactoryConfiguration),
                  !.calibration = setValue("cal", @, calibrationToUse),
                  !.deviceSerial = setValue("u32", @, serial),
                  !.firmwareVersion = setValue("u8", @, FIRMWARE_VERSION)])

\* calib is the calibration to keep with the aggregate after it was read
factoryResetKeeping(calib, serial) ==
    factoryResetTo(calib.criticalData, calib.value, serial)

\* factoryReset that installs the factory calibration whatever
\* preserveCalibration says
factoryResetFromFactory(serial, preserveCalibration) ==
    factoryResetKeeping(
        [value |-> getFactoryCalibration, criticalData |-> serial.criticalData],
        serial.value)

\* serial is the result of getDeviceSerial()
factoryResetFrom(serial, preserveCalibration) ==
    factoryResetKeeping(
        IF preserveCalibration THEN getCalibration(serial.criticalData)
        ELSE [value |-> getFactoryCalibration, criticalData |-> serial.criticalData],
        serial.value)

factoryReset(data, preserveCalibration) ==
    factoryResetFrom(getDeviceSerial(data), preserveCalibration)

setDeviceSerial(data, serial) ==
    updateStructureChecksum([data EXCEPT !.deviceSerial = setValue("u32", @, serial)])

(***************************************************************************)
(* CriticalDataProtector: the three backing files                          *)
(*                                                                         *)
(* A file is [exists, size, data]: data is the CriticalData image it holds *)
(* when size is sizeof(CriticalData), and NoData when the file is shorter. *)
(***************************************************************************)
FileNames == <<"/critical_data.dat", "/critical_backup1.dat", "/critical_backup2.dat">>

NoData == <<>>

NoFile == [exists |-> FALSE, size |-> 0, data |-> NoData]

\* sizeof(T) and sizeof(TripleRedundant<T>), as Bytes and CellBytes lay them out
SizeOf(T) ==
    CASE T = "u8" -> 1
      [] T = "u32" -> 4
      [] T = "cfg" -> 9 + 2 * SCALE_LEN + 1
      [] T = "cal" -> 4 * NUM_CAL

SizeOfCell(T) == 3 * SizeOf(T) + 16

\* the four members, structureChecksum and magic
SIZEOF_CRITICAL_DATA ==
    SizeOfCell("cal") + SizeOfCell("cfg") + SizeOfCell("u32") + SizeOfCell("u8") + 8

\* LittleFS.open(filename, "w") failed
OPEN_FAILED == -1

\* written is what file.write() returned, or OPEN_FAILED.  Opening with "w"
\* truncates the file.
writeToFile(file, data, written) ==
    IF written = OPEN_FAILED THEN [ret |-> FALSE, file |-> file]
    ELSE IF written # SIZEOF_CRITICAL_DATA
         THEN [ret |-> FALSE, file |-> [exists |-> TRUE, size |-> written, data |-> NoData]]
    ELSE [ret |-> TRUE, file |-> [exists |-> TRUE, size |-> written, data |-> data]]

\* an existing file opens for reading
readFromFile(file) ==
    IF ~file.exists THEN [ret |-> FALSE, data |-> NoData]
    ELSE IF file.size # SIZEOF_CRITICAL_DATA THEN [ret |-> FALSE, data |-> NoData]
    ELSE [ret |-> TRUE, data |-> file.data]

\* a save that writes the primary file only
persistCriticalDataPrimaryOnly(data, fs, written) ==
    LET w1 == writeToFile(fs[1], data, written[1])
    IN  [ret |-> w1.ret, files |-> <<w1.file, fs[2], fs[3]>>]

\* written[i] is the outcome of the write to FileNames[i]
persistCriticalData(data, fs, written) ==
    LET w1 == writeToFile(fs[1], data, written[1])
        w2 == writeToFile(fs[2], data, written[2])
        w3 == writeToFile(fs[3], data, written[3])
    IN  [ret |-> w1.ret /\ w2.ret /\ w3.ret, files |-> <<w1.file, w2.file, w3.file>>]

\* memcmp(&a, &b, sizeof(CriticalData)) == 0: two images are the same bytes
\* exactly when all their members are equal
sameImage(a, b) == a = b

\* loadCriticalData without the vote: the first file counted valid is taken
loadCriticalDataFirstValid(data, r1, r2, r3, structureOk) ==
    IF r1.ret /\ r1.data.magic = MAGIC /\ structureOk
    THEN [ret |-> TRUE, criticalData |-> r1.data]
    ELSE IF r2.ret /\ r2.data.magic = MAGIC THEN [ret |-> TRUE, criticalData |-> r2.data]
    ELSE IF r3.ret /\ r3.data.magic = MAGIC THEN [ret |-> TRUE, criticalData |-> r3.data]
    ELSE [ret |-> FALSE, criticalData |-> data]

\* The body of loadCriticalData() after the three reads.  The primary file
\* is accepted on its magic and on verifyStructureChecksum(), which checks
\* the protector's own criticalData, not the data just read: structureOk is
\* that result.
loadCriticalDataVoted(data, r1, r2, r3, structureOk) ==
    LET pV == r1.ret /\ r1.data.magic = MAGIC /\ structureOk
        b1V == r2.ret /\ r2.data.magic = MAGIC
        b2V == r3.ret /\ r3.data.magic = MAGIC
        validCount == (IF pV THEN 1 ELSE 0) + (IF b1V THEN 1 ELSE 0) + (IF b2V THEN 1 ELSE 0)
    IN  IF validCount = 0 THEN [ret |-> FALSE, criticalData |-> data]
        ELSE IF validCount >= 2 /\ pV /\ b1V /\ sameImage(r1.data, r2.data)
             THEN [ret |-> TRUE, criticalData |-> r1.data]
        ELSE IF validCount >= 2 /\ pV /\ b2V /\ sameImage(r1.data, r3.data)
             THEN [ret |-> TRUE, criticalData |-> r1.data]
        ELSE IF validCount >= 2 /\ b1V /\ b2V /\ sameImage(r2.data, r3.data)
             THEN [ret |-> TRUE, criticalData |-> r2.data]
        ELSE IF pV THEN [ret |-> TRUE, criticalData |-> r1.data]
        ELSE IF b1V THEN [ret |-> TRUE, criticalData |-> r2.data]
        ELSE IF b2V THEN [ret |-> TRUE, criticalData |-> r3.data]
        ELSE [ret |-> FALSE, criticalData |-> data]

loadCriticalData(data, fs) ==
    loadCriticalDataVoted(data, readFromFile(fs[1]), readFromFile(fs[2]),
                          readFromFile(fs[3]), verifyStructureChecksum(data))

\* "return persistCriticalData();" with p its result
initializePersisted(data, p) ==
    [ret |-> p.ret, criticalData |-> data, files |-> p.files]

\* initialize() after a failed repairCorruption(): f is the aggregate after
\* factoryReset(true)
initializeReset(f, fs, written) ==
    initializePersisted(f, persistCriticalData(f, fs, written))

\* initialize() after repairCorruption() gave rep
initializeRepaired(rep, fs, written) ==
    IF ~rep.ret THEN initializeReset(factoryReset(rep.criticalData, TRUE), fs, written)
    ELSE [ret |-> TRUE, criticalData |-> rep.criticalData, files |-> fs]

\* initialize() after loadCriticalData() gave load
initializeLoaded(data, fs, written, load) ==
    IF ~load.ret THEN initializePersisted(data, persistCriticalData(data, fs, written))
    ELSE IF ~verifyIntegrity(load.criticalData)
         THEN initializeRepaired(repairCorruption(load.criticalData), fs, written)
    ELSE [ret |-> TRUE, criticalData |-> load.criticalData, files |-> fs]

\* mounted is the result of LittleFS.begin()
initialize(data, fs, mounted, written) ==
    IF ~mounted THEN [ret |-> FALSE, criticalData |-> data, files |-> fs]
    ELSE initializeLoaded(data, fs, written, loadCriticalData(data, fs))

(***************************************************************************)
(* CriticalDataProtector::ConfigurationTransaction                         *)
(*                                                                         *)
(* The operations take the protector's criticalData and the transaction    *)
(* object and return both after the call.                                  *)
(***************************************************************************)
\* the constructor after its two reads: cfg is what getConfiguration() gave,
\* cal what getCalibration() gave after it
ConfigurationTransactionOf(cfg, cal) ==
    [txn |-> [originalConfig |-> cfg.value, originalCalibration |-> cal.value,
              committed |-> FALSE, configModified |-> FALSE,
              calibrationModified |-> FALSE],
     criticalData |-> cal.criticalData]

ConfigurationTransactionFrom(cfg) ==
    ConfigurationTransactionOf(cfg, getCalibration(cfg.criticalData))

\* the constructor; beginTransaction() returns what it builds
ConfigurationTransaction(data) == ConfigurationTransactionFrom(getConfiguration(data))

beginTransaction(data) == ConfigurationTransaction(data)

\* "criticalData.configuration.setValue(fixedConfig); configModified = true;"
applyConfiguration(d, txn, fixedConfig) ==
    [ret |-> TRUE,
     criticalData |-> [d EXCEPT !.configuration = setValue("cfg", @, fixedConfig)],
     txn |-> [txn EXCEPT !.configModified = TRUE]]

\* updateConfiguration() on an invalid candidate that can be fixed: fix is
\* what autoFixConfiguration gave
updateConfigurationFixed(d, txn, fix) ==
    IF ~fix.ret THEN [ret |-> FALSE, criticalData |-> d, txn |-> txn]
    ELSE applyConfiguration(d, txn, fix.config)

\* updateConfiguration() after validateConfiguration gave validation
updateConfigurationValidated(d, txn, newConfig, validation) ==
    IF ~validation.isValid /\ ~canAutoFix(validation)
    THEN [ret |-> FALSE, criticalData |-> d, txn |-> txn]
    ELSE IF ~validation.isValid /\ canAutoFix(validation)
         THEN updateConfigurationFixed(d, txn, autoFixConfiguration(newConfig, validation))
    ELSE applyConfiguration(d, txn, newConfig)

\* updateConfiguration() after getCurrentContext() gave context
updateConfigurationIn(context, txn, newConfig) ==
    updateConfigurationValidated(context.criticalData, txn, newConfig,
                                 validateConfiguration(newConfig, context.value))

updateConfiguration(data, txn, newConfig) ==
    updateConfigurationIn(getCurrentContext(data), txn, newConfig)

\* updateCalibration without the check of validation.isValid
updateCalibrationUnvalidated(d, txn, newCalibration, validation) ==
    [ret |-> TRUE,
     criticalData |-> [d EXCEPT !.calibration = setValue("cal", @, newCalibration)],
     txn |-> [txn EXCEPT !.calibrationModified = TRUE]]

\* updateCalibration() after validateCalibrationData gave validation
updateCalibrationValidated(d, txn, newCalibration, validation) ==
    IF ~validation.isValid
    THEN [ret |-> FALSE, criticalData |-> d, txn |-> txn]
    ELSE [ret |-> TRUE,
          criticalData |-> [d EXCEPT !.calibration = setValue("cal", @, newCalibration)],
          txn |-> [txn EXCEPT !.calibrationModified = TRUE]]

\* updateCalibration() after getCurrentContext() gave context
updateCalibrationIn(context, txn, newCalibration) ==
    updateCalibrationValidated(context.criticalData, txn, newCalibration,
                               validateCalibrationData(newCalibration, context.value))

updateCalibration(data, txn, newCalibration) ==
    updateCalibrationIn(getCurrentContext(data), txn, newCalibration)

\* "protector->persistCriticalData();" on the aggregate d whose structure
\* checksum commit() has just updated
\* commit() returns nothing; ret keeps what its persistCriticalData() returned
commitPersisted(d, txn, p) ==
    [ret |-> p.ret, criticalData |-> d, txn |-> [txn EXCEPT !.committed = TRUE],
     files |-> p.files]

commitPersist(d, txn, fs, written) ==
    commitPersisted(d, txn, persistCriticalData(d, fs, written))

commit(data, txn, fs, written) ==
    commitPersist(updateStructureChecksum(data), txn, fs, written)

\* the second "if" of rollback(), on the aggregate d after the first
rollbackCalibration(d, txn) ==
    IF txn.calibrationModified
    THEN [d EXCEPT !.calibration = setValue("cal", @, txn.originalCalibration)]
    ELSE d

rollback(data, txn) ==
    rollbackCalibration(
        IF txn.configModified
        THEN [data EXCEPT !.configuration = setValue("cfg", @, txn.originalConfig)]
        ELSE data,
        txn)

\* ~ConfigurationTransaction()
destroyTransaction(data, txn) ==
    IF ~txn.committed THEN rollback(data, txn) ELSE data

(***************************************************************************)
(* The live configuration: the globals of Configuration.cpp                *)
(***************************************************************************)
\* cfg, calibration_data, kb_cfg[BANK_AMT] and cc_cfg[BANK_AMT] as the
\* static initialisation leaves them; bank b is element b + 1
Globals ==
    [cfg |-> ConfigurationData,
     calibration_data |-> CalibrationData,
     kb_cfg |-> [b \in 1..BANK_AMT |-> KeyModeData],
     cc_cfg |-> [b \in 1..BANK_AMT |-> ControlChangeData]]

(***************************************************************************)
(* ConfigurationRecoverySystem                                             *)
(*                                                                         *)
(* The operators work on w: the object (rs), its snapshot files and        *)
(* statistics file, the globals (g), and the number of snapshots created   *)
(* so far.  A snapshot carries, besides the members of RecoverySnapshot,   *)
(* the history field born: the number of the createSnapshot() call that    *)
(* made it (0 for memory that never held one).  The description is not     *)
(* modelled: no code reads it back.                                        *)
(***************************************************************************)
\* the members of ConfigurationData after memset(.., 0, ..)
ZeroConfiguration ==
    [version |-> 0, mode |-> 0, sensitivity |-> 0, brightness |-> 0, palette |-> 0,
     midi_trs |-> 0, trs_type |-> 0, passthrough |-> 0, midi_ble |-> 0,
     custom_scale1 |-> [i \in 1..SCALE_LEN |-> 0],
     custom_scale2 |-> [i \in 1..SCALE_LEN |-> 0],
     hasChanged |-> FALSE]

\* a RecoverySnapshot after memset(snapshots, 0, sizeof(snapshots))
RecoverySnapshot ==
    [config |-> ZeroConfiguration, calibration |-> CalibrationData, timestamp |-> 0,
     checksum |-> 0, reason |-> "BEFORE_FIRMWARE_UPDATE", firmwareVersion |-> 0,
     isValid |-> FALSE, born |-> 0]

\* a RecoveryStats after memset(&stats, 0, sizeof(stats))
RecoveryStats ==
    [totalRecoveries |-> 0, successfulRecoveries |-> 0, failedRecoveries |-> 0,
     lastRecoveryTimestamp |-> 0, lastRecoveryLevel |-> "PARAMETER_RESET"]

\* the constructor
ConfigurationRecoverySystem ==
    [snapshots |-> [i \in 1..MAX_SNAPSHOTS |-> RecoverySnapshot],
     currentSnapshotIndex |-> 0, snapshotCount |-> 0, lastPeriodicSnapshot |-> 0,
     stats |-> RecoveryStats]

NoSnapshotFile == [exists |-> FALSE, data |-> RecoverySnapshot]

NoStatsFile == [exists |-> FALSE, data |-> RecoveryStats]

\* the bytes before offsetof(RecoverySnapshot, checksum)
SnapshotBytes(snapshot) ==
    ConfigBytes(snapshot.config) \o CalibrationBytes(snapshot.calibration)
    \o U32Bytes(snapshot.timestamp)

updateSnapshotChecksum(snapshot) ==
    [snapshot EXCEPT !.checksum = crc32(SnapshotBytes(snapshot))]

verifySnapshotChecksum(snapshot) ==
    crc32(SnapshotBytes(snapshot)) = snapshot.checksum

validateSnapshot(snapshot) ==
    LET context == [variant |-> "T16", firmwareVersion |-> snapshot.firmwareVersion,
                    strictMode |-> FALSE, level |-> "STANDARD"]
    IN  /\ validateConfiguration(snapshot.config, context).isValid
        /\ validateCalibrationData(snapshot.calibration, context).isValid

\* file.write() of the whole snapshot; a failing open is not modelled
saveSnapshotToStorage(w, index) ==
    [w EXCEPT !.snapFiles[index + 1] = [exists |-> TRUE, data |-> w.rs.snapshots[index + 1]]]

\* the file is read into snapshots[index] before its checksum is looked at
loadSnapshotFromStorage(w, index) ==
    IF ~w.snapFiles[index + 1].exists THEN [ret |-> FALSE, w |-> w]
    ELSE [ret |-> verifySnapshotChecksum(w.snapFiles[index + 1].data),
          w |-> [w EXCEPT !.rs.snapshots[index + 1] = w.snapFiles[index + 1].data]]

\* one pass of the loop of loadAllSnapshots, r being what
\* loadSnapshotFromStorage gave
loadAllSnapshotsCounted(r) ==
    IF r.ret THEN [r.w EXCEPT !.rs.snapshotCount = @ + 1] ELSE r.w

RECURSIVE loadAllSnapshotsFrom(_, _)
loadAllSnapshotsFrom(w, i) ==
    IF i >= MAX_SNAPSHOTS THEN w
    ELSE loadAllSnapshotsFrom(loadAllSnapshotsCounted(loadSnapshotFromStorage(w, i)), i + 1)

loadAllSnapshots(w) ==
    loadAllSnapshotsFrom([w EXCEPT !.rs.snapshotCount = 0], 0)

RECURSIVE saveAllSnapshotsFrom(_, _)
saveAllSnapshotsFrom(w, i) ==
    IF i >= w.rs.snapshotCount THEN w
    ELSE saveAllSnapshotsFrom(saveSnapshotToStorage(w, i), i + 1)

saveAllSnapshots(w) ==
    [saveAllSnapshotsFrom(w, 0) EXCEPT !.statsFile = [exists |-> TRUE, data |-> w.rs.stats]]

logRecoveryAttempt(w, level, success) == saveAllSnapshots(w)

\* snapshots[currentSnapshotIndex] has become snapshot
createSnapshotStored(w, snapshot) ==
    saveSnapshotToStorage(
        [w EXCEPT !.rs.snapshots[w.rs.currentSnapshotIndex + 1] = snapshot],
        w.rs.currentSnapshotIndex)

createSnapshotIndexed(w) ==
    [w EXCEPT !.rs.currentSnapshotIndex = (@ + 1) % MAX_SNAPSHOTS,
              !.rs.snapshotCount = IF @ < MAX_SNAPSHOTS THEN @ + 1 ELSE @,
              !.created = @ + 1]

\* createSnapshot(config, calib, reason, description); now is millis()
createSnapshotOf(w, config, calib, reason, now) ==
    createSnapshotIndexed(
        createSnapshotStored(w,
            updateSnapshotChecksum(
                [config |-> config, calibration |-> calib, timestamp |-> now,
                 checksum |-> w.rs.snapshots[w.rs.currentSnapshotIndex + 1].checksum,
                 reason |-> reason, firmwareVersion |-> config.version,
                 isValid |-> TRUE, born |-> w.created + 1])))

\* createSnapshot(reason, description): dataProtector is never set, the
\* snapshot is taken from the globals
createSnapshot(w, reason, now) ==
    createSnapshotOf(w, w.g.cfg, w.g.calibration_data, reason, now)

recoveryLoadStatistics(w) ==
    IF w.statsFile.exists THEN [w EXCEPT !.rs.stats = w.statsFile.data] ELSE w

\* ConfigurationRecoverySystem::initialize(), which returns true
recoveryInitialize(w, now) ==
    createSnapshot(recoveryLoadStatistics(loadAllSnapshots(w)), "PERIODIC_BACKUP", now)

\* A uint32_t is held as the int32_t of the same bits, and taken apart into
\* its 16-bit halves to compute with it
u32Halves(v) == [hi |-> (v \div 65536) % 65536, lo |-> v % 65536]

u32Of(h) == (IF h.hi >= 32768 THEN h.hi - 65536 ELSE h.hi) * 65536 + h.lo

\* a + b of two numbers in halves, the high half growing beyond 16 bits
halvesPlus(x, y) ==
    [hi |-> x.hi + y.hi + (x.lo + y.lo) \div 65536, lo |-> (x.lo + y.lo) % 65536]

\* the low 32 bits of a number in halves
u32Wrap(h) == [hi |-> h.hi % 65536, lo |-> h.lo]

\* v + d of a uint32_t and a number in halves
u32Plus(v, d) == u32Of(u32Wrap(halvesPlus(u32Halves(v), d)))

\* a - b of two uint32_t, in halves
u32Minus(x, y) ==
    [hi |-> (x.hi - y.hi - (IF x.lo < y.lo THEN 1 ELSE 0)) % 65536,
     lo |-> (x.lo - y.lo) % 65536]

u32Sub(a, b) == u32Minus(u32Halves(a), u32Halves(b))

\* h >= n for a number in halves and a constant n
halvesAtLeast(h, n) ==
    \/ h.hi > n \div 65536
    \/ h.hi = n \div 65536 /\ h.lo >= n % 65536

checkPeriodicSnapshotLate(w, now) ==
    IF halvesAtLeast(u32Sub(now, w.rs.lastPeriodicSnapshot), SNAPSHOT_INTERVAL + 1)
    THEN [createSnapshot(w, "PERIODIC_BACKUP", now) EXCEPT !.rs.lastPeriodicSnapshot = now]
    ELSE w

\* checkPeriodicSnapshot(); now is millis()
checkPeriodicSnapshot(w, now) ==
    IF halvesAtLeast(u32Sub(now, w.rs.lastPeriodicSnapshot), SNAPSHOT_INTERVAL)
    THEN [createSnapshot(w, "PERIODIC_BACKUP", now) EXCEPT !.rs.lastPeriodicSnapshot = now]
    ELSE w

\* one pass of the loop body of tryParameterRecovery: [g, recovered]
tryParameterRecoveryStep(acc, error) ==
    LET g == acc.g
        p == error.parameter
        bank == error.bank
        index == error.index
        done(h) == [g |-> h, recovered |-> TRUE]
    IN  IF ~error.isAutoFixable THEN acc
        ELSE IF p = "mode" THEN done([g EXCEPT !.cfg.mode = 0])
        ELSE IF p = "sensitivity" THEN done([g EXCEPT !.cfg.sensitivity = 1])
        ELSE IF p = "brightness" THEN done([g EXCEPT !.cfg.brightness = 6])
        ELSE IF p = "channel" /\ bank < BANK_AMT
             THEN done([g EXCEPT !.kb_cfg[bank + 1].channel = 1])
        ELSE IF p = "scale" /\ bank < BANK_AMT
             THEN done([g EXCEPT !.kb_cfg[bank + 1].scale = 0])
        ELSE IF p = "cc_id" /\ bank < BANK_AMT /\ index < CC_AMT
             THEN done([g EXCEPT !.cc_cfg[bank + 1].id[index + 1] = 13 + index])
        ELSE acc

RECURSIVE tryParameterRecoveryFrom(_, _, _)
tryParameterRecoveryFrom(acc, errors, i) ==
    IF i > Len(errors) THEN acc
    ELSE tryParameterRecoveryFrom(tryParameterRecoveryStep(acc, errors[i]), errors, i + 1)

tryParameterRecoveryDone(w, acc) ==
    [ret |-> acc.recovered,
     w |-> [w EXCEPT !.g = IF acc.recovered THEN [acc.g EXCEPT !.cfg.hasChanged = TRUE]
                           ELSE acc.g]]

tryParameterRecovery(w, validation) ==
    tryParameterRecoveryDone(w,
        tryParameterRecoveryFrom([g |-> w.g, recovered |-> FALSE], validation.errors, 1))

\* applyConfiguration without the assignment cfg = config
recoveryApplyConfigurationFlagOnly(w, config) ==
    [w EXCEPT !.g.cfg.hasChanged = TRUE]

\* applyConfiguration(config) of the recovery system
recoveryApplyConfiguration(w, config) ==
    [w EXCEPT !.g.cfg = [config EXCEPT !.hasChanged = TRUE]]

recoveryApplyCalibration(w, calib) ==
    [w EXCEPT !.g.calibration_data = calib]

\* the slot the loop of trySnapshotRecovery looks at in pass i
snapshotSlot(w, i) ==
    (w.rs.currentSnapshotIndex - 1 - i + MAX_SNAPSHOTS) % MAX_SNAPSHOTS

\* the snapshot passes the three tests of the loop
snapshotUsable(snapshot) ==
    /\ snapshot.isValid
    /\ verifySnapshotChecksum(snapshot)
    /\ validateSnapshot(snapshot)

\* idx is the slot applied, -1 when none was
RECURSIVE trySnapshotRecoveryFrom(_, _)
trySnapshotRecoveryFrom(w, i) ==
    IF i >= w.rs.snapshotCount THEN [ret |-> FALSE, idx |-> -1, w |-> w]
    ELSE IF ~snapshotUsable(w.rs.snapshots[snapshotSlot(w, i) + 1])
         THEN trySnapshotRecoveryFrom(w, i + 1)
    ELSE [ret |-> TRUE, idx |-> snapshotSlot(w, i),
          w |-> recoveryApplyCalibration(
                    recoveryApplyConfiguration(w,
                        w.rs.snapshots[snapshotSlot(w, i) + 1].config),
                    w.rs.snapshots[snapshotSlot(w, i) + 1].calibration)]

trySnapshotRecovery(w) == trySnapshotRecoveryFrom(w, 0)

\* getDefaultBankConfig(bank, kb_cfg, cc_cfg): the two structures it fills
getDefaultBankConfig(bank) ==
    [kb |-> [KeyModeData EXCEPT !.palette = bank, !.channel = 1, !.scale = 0,
                                !.base_octave = 2, !.base_note = 0,
                                !.velocity_curve = 1, !.aftertouch_curve = 1,
                                !.flip_x = 0, !.flip_y = 0, !.koala_mode = 0],
     cc |-> [ControlChangeData EXCEPT !.channel = [i \in 1..CC_AMT |-> 1],
                                      !.id = [i \in 1..CC_AMT |-> 13 + (i - 1)]]]

tryFactoryRecovery(w, preserveCalibration) ==
    [ret |-> TRUE,
     w |-> [w EXCEPT
        !.g.cfg = [ConfigurationData EXCEPT
                      !.version = 102, !.mode = 0, !.sensitivity = 1, !.brightness = 6,
                      !.palette = 0, !.midi_trs = 0, !.trs_type = 0, !.passthrough = 0,
                      !.midi_ble = 0,
                      !.custom_scale1 = [i \in 1..SCALE_LEN |-> i - 1],
                      !.custom_scale2 = [i \in 1..SCALE_LEN |-> i - 1],
                      !.hasChanged = TRUE],
        !.g.kb_cfg = [b \in 1..BANK_AMT |-> getDefaultBankConfig(b - 1).kb],
        !.g.cc_cfg = [b \in 1..BANK_AMT |-> getDefaultBankConfig(b - 1).cc],
        !.g.calibration_data =
            IF preserveCalibration THEN @
            ELSE [minVal |-> [i \in 1..NUM_CAL |-> 0],
                  maxVal |-> [i \in 1..NUM_CAL |-> 4095]]]]

\* the end of attemptAutoRecovery once a level succeeded, without
\* "stats.successfulRecoveries++"
attemptAutoRecoverySucceededUncounted(w, level, idx) ==
    [ret |-> TRUE, level |-> level, idx |-> idx,
     w |-> logRecoveryAttempt([w EXCEPT !.rs.stats.lastRecoveryLevel = level], level, TRUE)]

\* the end of attemptAutoRecovery once a level succeeded; idx is the slot a
\* snapshot recovery applied
attemptAutoRecoverySucceeded(w, level, idx) ==
    [ret |-> TRUE, level |-> level, idx |-> idx,
     w |-> logRecoveryAttempt(
             [w EXCEPT !.rs.stats.successfulRecoveries = @ + 1,
                       !.rs.stats.lastRecoveryLevel = level],
             level, TRUE)]

attemptAutoRecoveryFailed(w) ==
    [ret |-> FALSE, level |-> "NONE", idx |-> -1,
     w |-> logRecoveryAttempt([w EXCEPT !.rs.stats.failedRecoveries = @ + 1],
                              "FACTORY_RESET", FALSE)]

attemptAutoRecoveryFactory(r) ==
    IF r.ret THEN attemptAutoRecoverySucceeded(r.w, "CALIBRATION_PRESERVE", -1)
    ELSE attemptAutoRecoveryFailed(r.w)

attemptAutoRecoverySnapshot(r) ==
    IF r.ret THEN attemptAutoRecoverySucceeded(r.w, "RECOVERY_SNAPSHOT", r.idx)
    ELSE attemptAutoRecoveryFactory(tryFactoryRecovery(r.w, TRUE))

\* attemptAutoRecovery that goes on to the snapshots after a parameter
\* recovery that succeeded
attemptAutoRecoveryParameterGoesOn(r) ==
    attemptAutoRecoverySnapshot(trySnapshotRecovery(r.w))

attemptAutoRecoveryParameter(r) ==
    IF r.ret THEN attemptAutoRecoverySucceeded(r.w, "PARAMETER_RESET", -1)
    ELSE attemptAutoRecoverySnapshot(trySnapshotRecovery(r.w))

\* attemptAutoRecovery(validation); now is millis()
attemptAutoRecovery(w, validation, now) ==
    attemptAutoRecoveryParameter(
        tryParameterRecovery(
            [w EXCEPT !.rs.stats.totalRecoveries = @ + 1,
                      !.rs.stats.lastRecoveryTimestamp = now],
            validation))

\* the recovery system after its constructor, the globals after their
\* static initialisation, a storage without files
NoWorld ==
    [rs |-> ConfigurationRecoverySystem,
     snapFiles |-> [i \in 1..MAX_SNAPSHOTS |-> NoSnapshotFile],
     statsFile |-> NoStatsFile, g |-> Globals, created |-> 0]

(***************************************************************************)
(* The configuration file of DataManager and Configuration.cpp             *)
(***************************************************************************)
\* no file, or one that does not parse: LoadJsonDocument() gives a null
\* document
NoDocument == [exists |-> FALSE, cfg |-> ZeroConfiguration,
               kb_cfg |-> [b \in 1..BANK_AMT |-> KeyModeData],
               cc_cfg |-> [b \in 1..BANK_AMT |-> ControlChangeData]]

\* SaveConfiguration(config, overwrite): the document holds the members of
\* the globals it names; "pal" is the number of the bank
SaveConfiguration(g) ==
    [exists |-> TRUE, cfg |-> g.cfg,
     kb_cfg |-> [b \in 1..BANK_AMT |-> [g.kb_cfg[b] EXCEPT !.palette = b - 1]],
     cc_cfg |-> g.cc_cfg]

\* LoadConfiguration(config, partial).  LoadVar and LoadArray leave the
\* variable alone when the document is null; the banks are assigned from
\* the "banks" array in any case, and a member of a null object reads as 0.
LoadConfiguration(g, doc) ==
    [g EXCEPT
        !.cfg = IF ~doc.exists THEN @
                ELSE [@ EXCEPT !.mode = doc.cfg.mode, !.sensitivity = doc.cfg.sensitivity,
                               !.brightness = doc.cfg.brightness,
                               !.midi_trs = doc.cfg.midi_trs, !.trs_type = doc.cfg.trs_type,
                               !.passthrough = doc.cfg.passthrough,
                               !.midi_ble = doc.cfg.midi_ble,
                               !.custom_scale1 = doc.cfg.custom_scale1,
                               !.custom_scale2 = doc.cfg.custom_scale2],
        !.kb_cfg = [b \in 1..BANK_AMT |->
                      IF doc.exists
                      THEN [doc.kb_cfg[b] EXCEPT !.koala_mode = g.kb_cfg[b].koala_mode,
                                                 !.hasChanged = g.kb_cfg[b].hasChanged]
                      ELSE [g.kb_cfg[b] EXCEPT !.palette = 0, !.channel = 0, !.scale = 0,
                                               !.base_octave = 0, !.base_note = 0,
                                               !.velocity_curve = 0, !.aftertouch_curve = 0,
                                               !.flip_x = 0, !.flip_y = 0]],
        !.cc_cfg = [b \in 1..BANK_AMT |->
                      IF doc.exists
                      THEN [doc.cc_cfg[b] EXCEPT !.hasChanged = g.cc_cfg[b].hasChanged]
                      ELSE [g.cc_cfg[b] EXCEPT !.channel = [i \in 1..CC_AMT |-> 0],
                                               !.id = [i \in 1..CC_AMT |-> 0]]]]

(***************************************************************************)
(* ValidationBootManager                                                   *)
(*                                                                         *)
(* The operators work on b: the manager (bm), its dataProtector (data) and *)
(* the three files of that, its recoverySystem with the snapshot files and *)
(* the globals (w), the file of the boot statistics (bootStats) and the    *)
(* configuration file (doc).                                               *)
(***************************************************************************)
\* the constructor: memset(&status, 0, sizeof(status)), state INIT
ValidationBootManager ==
    [status |-> [state |-> "INIT", configValid |-> FALSE, calibrationValid |-> FALSE,
                 integrityCheck |-> FALSE, corruptionLevel |-> 0, bootTime |-> 0,
                 recoveryAttempts |-> 0],
     inSafeMode |-> FALSE, bootCount |-> 0, failureCount |-> 0, lastSuccessfulBoot |-> 0]

NoBootStats ==
    [exists |-> FALSE, bootCount |-> 0, failureCount |-> 0, lastSuccessfulBoot |-> 0]

updateBootState(b, newState) == [b EXCEPT !.bm.status.state = newState]

\* LittleFS.format() leaves a file system without files
formatted(b) ==
    [b EXCEPT !.files = <<NoFile, NoFile, NoFile>>,
              !.w.snapFiles = [i \in 1..MAX_SNAPSHOTS |-> NoSnapshotFile],
              !.w.statsFile = NoStatsFile,
              !.bootStats = NoBootStats,
              !.doc = NoDocument]

\* mount is what LittleFS did: "mounted" when begin() succeeded at once,
\* "formatted" when it did after format(), "erased" when format() succeeded
\* and the second begin() failed, "failed" when format() failed
initializeFilesystemFormatted(b, mount) ==
    IF mount = "mounted" THEN [ret |-> TRUE, b |-> b]
    ELSE IF mount \in {"formatted", "erased"} THEN [ret |-> TRUE, b |-> formatted(b)]
    ELSE [ret |-> FALSE, b |-> [b EXCEPT !.bm.status.integrityCheck = FALSE]]

initializeFilesystem(b, mount) ==
    IF mount = "mounted" THEN [ret |-> TRUE, b |-> b]
    ELSE IF mount = "formatted" THEN [ret |-> TRUE, b |-> formatted(b)]
    ELSE [ret |-> FALSE,
          b |-> [(IF mount = "erased" THEN formatted(b) ELSE b)
                    EXCEPT !.bm.status.integrityCheck = FALSE]]

\* the file is written whole; opened is whether LittleFS.open(.., "w") gave
\* a file
saveBootStatistics(b, opened) ==
    IF ~opened THEN b
    ELSE [b EXCEPT !.bootStats = [exists |-> TRUE, bootCount |-> b.bm.bootCount,
                                  failureCount |-> b.bm.failureCount,
                                  lastSuccessfulBoot |-> b.bm.lastSuccessfulBoot]]

loadBootStatistics(b) ==
    IF ~b.bootStats.exists THEN b
    ELSE [b EXCEPT !.bm.bootCount = b.bootStats.bootCount,
                   !.bm.failureCount = b.bootStats.failureCount,
                   !.bm.lastSuccessfulBoot = b.bootStats.lastSuccessfulBoot]

\* checkDataIntegrity() after dataProtector.initialize() gave true, on the
\* aggregate it left
checkDataIntegrityVerified(b) ==
    IF ~verifyIntegrity(b.data)
    THEN [ret |-> repairCorruption(b.data).ret,
          b |-> [b EXCEPT !.bm.status.corruptionLevel = getCorruptionLevel(b.data),
                          !.bm.status.integrityCheck = repairCorruption(b.data).ret,
                          !.data = repairCorruption(b.data).criticalData]]
    ELSE [ret |-> TRUE,
          b |-> [b EXCEPT !.bm.status.integrityCheck = TRUE,
                          !.bm.status.corruptionLevel = 0]]

\* checkDataIntegrity() after dataProtector.initialize() gave r
checkDataIntegrityInitialized(b, r) ==
    IF ~r.ret
    THEN [ret |-> FALSE,
          b |-> [b EXCEPT !.data = r.criticalData, !.files = r.files,
                          !.bm.status.integrityCheck = FALSE]]
    ELSE checkDataIntegrityVerified([b EXCEPT !.data = r.criticalData, !.files = r.files])

\* the file system is mounted when the boot sequence gets here
checkDataIntegrity(b, written) ==
    checkDataIntegrityInitialized(b, initialize(b.data, b.files, TRUE, written))

\* loadConfiguration() with rc and rk what getConfiguration() and
\* getCalibration() gave
loadConfigurationRead(b, rc, rk) ==
    [ret |-> TRUE,
     b |-> [b EXCEPT !.data = rk.criticalData,
                     !.w.g = LoadConfiguration(
                                [b.w.g EXCEPT !.cfg = rc.value, !.calibration_data = rk.value],
                                b.doc),
                     !.bm.status.configValid = TRUE]]

loadConfigurationCalibration(b, rc) ==
    loadConfigurationRead(b, rc, getCalibration(rc.criticalData))

loadConfiguration(b) == loadConfigurationCalibration(b, getConfiguration(b.data))

enterSafeModeBright(b) ==
    [b EXCEPT !.bm.inSafeMode = TRUE,
              !.bm.status.state = "SAFE_MODE",
              !.w.g.cfg = [ConfigurationData EXCEPT !.version = 102, !.mode = 4,
                                                    !.sensitivity = 1,
                                                    !.midi_trs = 0, !.midi_ble = 0]]

\* enterSafeMode()
enterSafeMode(b) ==
    [b EXCEPT !.bm.inSafeMode = TRUE,
              !.bm.status.state = "SAFE_MODE",
              !.w.g.cfg = [ConfigurationData EXCEPT !.version = 102, !.mode = 4,
                                                    !.sensitivity = 1, !.brightness = 3,
                                                    !.midi_trs = 0, !.midi_ble = 0]]

\* Then(x, F) is F(x), with x computed once: it names the result of a call
\* for the code after it
Then(x, F(_)) == CHOOSE y \in {F(v) : v \in {x}} : TRUE

\* one pass of the bank loop of validateConfiguration(): ret is FALSE where
\* the code returns false
validateConfigurationBank(b, context, bank) ==
    Then(validateKeyModeData(b.w.g.kb_cfg[bank + 1], bank, context), LAMBDA kbResult :
    Then(IF ~kbResult.isValid /\ canAutoFix(kbResult)
         THEN autoFixKeyModeData(b.w.g.kb_cfg[bank + 1], kbResult)
         ELSE [ret |-> kbResult.isValid, kb |-> b.w.g.kb_cfg[bank + 1]], LAMBDA kb :
    IF ~kb.ret THEN [ret |-> FALSE, b |-> [b EXCEPT !.w.g.kb_cfg[bank + 1] = kb.kb]]
    ELSE
    Then(validateControlChangeData(b.w.g.cc_cfg[bank + 1], bank, context), LAMBDA ccResult :
    Then(IF ~ccResult.isValid /\ canAutoFix(ccResult)
         THEN autoFixControlChangeData(b.w.g.cc_cfg[bank + 1], ccResult)
         ELSE [ret |-> ccResult.isValid, cc |-> b.w.g.cc_cfg[bank + 1]], LAMBDA cc :
    [ret |-> cc.ret,
     b |-> [b EXCEPT !.w.g.kb_cfg[bank + 1] = kb.kb, !.w.g.cc_cfg[bank + 1] = cc.cc]]))))

RECURSIVE validateConfigurationBanks(_, _, _)
validateConfigurationBanks(b, context, bank) ==
    IF bank >= BANK_AMT THEN [ret |-> TRUE, b |-> b]
    ELSE Then(validateConfigurationBank(b, context, bank), LAMBDA r :
         IF ~r.ret THEN r ELSE validateConfigurationBanks(r.b, context, bank + 1))

\* ValidationBootManager::validateConfiguration(): an invalid main
\* configuration is fixed where autoFixConfiguration can and is otherwise
\* left as it is; only the calibration and the banks make it return false
bootValidateConfiguration(b) ==
    Then([variant |-> "T16", firmwareVersion |-> b.w.g.cfg.version, strictMode |-> TRUE,
          level |-> "COMPREHENSIVE"], LAMBDA context :
    Then(validateConfiguration(b.w.g.cfg, context), LAMBDA configResult :
    Then(IF ~configResult.isValid /\ canAutoFix(configResult)
         THEN autoFixConfiguration(b.w.g.cfg, configResult)
         ELSE [ret |-> configResult.isValid, config |-> b.w.g.cfg], LAMBDA fix :
    Then([b EXCEPT !.w.g.cfg = fix.config,
                   !.bm.status.configValid = IF configResult.isValid THEN @ ELSE fix.ret],
         LAMBDA b1 :
    IF ~validateCalibrationData(b1.w.g.calibration_data, context).isValid
    THEN [ret |-> FALSE, b |-> [b1 EXCEPT !.bm.status.calibrationValid = FALSE]]
    ELSE validateConfigurationBanks([b1 EXCEPT !.bm.status.calibrationValid = TRUE],
                                    context, 0)))))

\* attemptAutoRecovery(RecoveryLevel level = RECOVERY_SNAPSHOT) is declared in
\* ConfigurationRecovery.hpp and defined nowhere in the sources.  It is
\* modelled as the escalation of attemptAutoRecovery(validation) entered at
\* the snapshot level: snapshot recovery, then factory recovery with the
\* calibration preserved.  Its callers provide for a result of false, and
\* when it gives that is left open: recovers is whether the call succeeds,
\* and a call that does not changes the statistics only.
attemptAutoRecoveryAtLevel(w, now, recovers) ==
    IF recovers
    THEN attemptAutoRecoverySnapshot(
            trySnapshotRecovery([w EXCEPT !.rs.stats.totalRecoveries = @ + 1,
                                          !.rs.stats.lastRecoveryTimestamp = now]))
    ELSE attemptAutoRecoveryFailed([w EXCEPT !.rs.stats.totalRecoveries = @ + 1,
                                             !.rs.stats.lastRecoveryTimestamp = now])

\* attemptRecovery(); initialize() of the recovery system returns true.
\* b.attempts counts the calls made in this performBootSequence()
attemptRecovery(b, now, written, recovers) ==
    Then(attemptAutoRecoveryAtLevel(
            recoveryInitialize(updateBootState(b, "RECOVERING").w, now), now, recovers),
         LAMBDA r :
    IF ~r.ret THEN [ret |-> FALSE, b |-> [updateBootState(b, "RECOVERING") EXCEPT
                                             !.w = r.w, !.attempts = @ + 1]]
    ELSE
    Then(beginTransaction(b.data), LAMBDA t :
    Then(updateConfiguration(t.criticalData, t.txn, r.w.g.cfg), LAMBDA u1 :
    Then(updateCalibration(u1.criticalData, u1.txn, r.w.g.calibration_data), LAMBDA u2 :
    Then(commit(u2.criticalData, u2.txn, b.files, written), LAMBDA c :
    [ret |-> TRUE,
     b |-> [updateBootState(b, "RECOVERING") EXCEPT
               !.w = r.w,
               !.data = destroyTransaction(c.criticalData, c.txn),
               !.files = c.files,
               !.attempts = @ + 1]])))))

\* performBootSequence() is modelled stage by stage.  Each stage gives the
\* state b it leaves and next: the stage that follows or the BootResult
\* returned.
\* Stage 1: the file system, the boot statistics, the failure counter
performBootSequenceInit(b, mount, now) ==
    Then(initializeFilesystem(
            updateBootState([b EXCEPT !.bm.status.bootTime = now,
                                      !.bm.status.recoveryAttempts = 0], "INIT"),
            mount), LAMBDA fs :
    IF ~fs.ret THEN [next |-> "CRITICAL_FAILURE", b |-> fs.b]
    ELSE
    Then([loadBootStatistics(fs.b) EXCEPT !.bm.bootCount = @ + 1], LAMBDA b1 :
    IF b1.bm.failureCount >= MAX_BOOT_FAILURES
    THEN [next |-> "SAFE_MODE_REQUIRED", b |-> enterSafeMode(b1)]
    ELSE [next |-> "CHECKING_INTEGRITY", b |-> b1]))

performBootSequenceRecoveredTwice(r, next) ==
    IF r.ret THEN [next |-> next, b |-> [r.b EXCEPT !.bm.status.recoveryAttempts = @ + 2]]
    ELSE [next |-> "SAFE_MODE_REQUIRED", b |-> enterSafeMode(r.b)]

\* what follows a failed stage: attemptRecovery() gave r
performBootSequenceRecovered(r, next) ==
    IF r.ret THEN [next |-> next, b |-> [r.b EXCEPT !.bm.status.recoveryAttempts = @ + 1]]
    ELSE [next |-> "SAFE_MODE_REQUIRED", b |-> enterSafeMode(r.b)]

\* Stage 2: the integrity of the critical data
performBootSequenceIntegrity(b, now, written, recovers) ==
    Then(checkDataIntegrity(updateBootState(b, "CHECKING_INTEGRITY"), written), LAMBDA r :
    IF r.ret THEN [next |-> "LOADING_CONFIG", b |-> r.b]
    ELSE performBootSequenceRecovered(
            attemptRecovery([r.b EXCEPT !.bm.failureCount = @ + 1], now, written, recovers),
            "LOADING_CONFIG"))

\* Stage 3: the configuration
performBootSequenceLoad(b, now, written, recovers) ==
    Then(loadConfiguration(updateBootState(b, "LOADING_CONFIG")), LAMBDA r :
    IF r.ret THEN [next |-> "VALIDATING_CONFIG", b |-> r.b]
    ELSE IF r.b.bm.status.recoveryAttempts < MAX_RECOVERY_ATTEMPTS
    THEN performBootSequenceRecovered(
            attemptRecovery([r.b EXCEPT !.bm.failureCount = @ + 1], now, written, recovers),
            "VALIDATING_CONFIG")
    ELSE [next |-> "SAFE_MODE_REQUIRED",
          b |-> enterSafeMode([r.b EXCEPT !.bm.failureCount = @ + 1])])

performBootSequenceReadyUnmarked(b, now, opened) ==
    Then([b EXCEPT !.bm.lastSuccessfulBoot = now], LAMBDA b1 :
    IF b1.bm.status.recoveryAttempts > 0
    THEN [next |-> "RECOVERED", b |-> saveBootStatistics(b1, opened)]
    ELSE IF b1.bm.failureCount > 0
    THEN [next |-> "SUCCESS",
          b |-> saveBootStatistics([b1 EXCEPT !.bm.failureCount = 0], opened)]
    ELSE [next |-> "SUCCESS", b |-> b1])

\* "Boot successful": the end of performBootSequence(); opened is whether
\* the file of the boot statistics could be opened for writing
performBootSequenceReady(b, now, opened) ==
    Then([updateBootState(b, "READY") EXCEPT !.bm.lastSuccessfulBoot = now], LAMBDA b1 :
    IF b1.bm.status.recoveryAttempts > 0
    THEN [next |-> "RECOVERED", b |-> saveBootStatistics(b1, opened)]
    ELSE IF b1.bm.failureCount > 0
    THEN [next |-> "SUCCESS",
          b |-> saveBootStatistics([b1 EXCEPT !.bm.failureCount = 0], opened)]
    ELSE [next |-> "SUCCESS", b |-> b1])

\* Stage 4: the validation, and the end of the sequence
performBootSequenceValidate(b, now, written, opened, recovers) ==
    Then(bootValidateConfiguration(updateBootState(b, "VALIDATING_CONFIG")), LAMBDA v :
    IF v.ret \/ ~(v.b.bm.status.recoveryAttempts < MAX_RECOVERY_ATTEMPTS)
    THEN performBootSequenceReady(v.b, now, opened)
    ELSE
    Then(attemptRecovery(updateBootState(v.b, "RECOVERING"), now, written, recovers),
         LAMBDA r :
    IF ~r.ret THEN [next |-> "SAFE_MODE_REQUIRED", b |-> enterSafeMode(r.b)]
    ELSE
    Then(bootValidateConfiguration([r.b EXCEPT !.bm.status.recoveryAttempts = @ + 1]),
         LAMBDA v2 :
    IF ~v2.ret THEN [next |-> "SAFE_MODE_REQUIRED", b |-> enterSafeMode(v2.b)]
    ELSE performBootSequenceReady(v2.b, now, opened))))

(***************************************************************************)
(* RealtimeValidator and FastValidator.  A float is kept in hundredths:    *)
(* 0.18f is 18.                                                            *)
(***************************************************************************)
PARAM_MODE == 1
PARAM_SENSITIVITY == 2
PARAM_BRIGHTNESS == 3
PARAM_KB_CHANNEL == 256
PARAM_KB_SCALE == 257
PARAM_KB_OCTAVE == 258
PARAM_CC_CHANNEL == 512
PARAM_CC_ID == 513
PARAM_PRESSURE_THRESHOLD == 4096
PARAM_AFTERTOUCH_THRESHOLD == 4097

\* a | b on uint32_t
RECURSIVE BitOr(_, _)
BitOr(a, b) ==
    IF a = 0 THEN b
    ELSE IF b = 0 THEN a
    ELSE (IF a % 2 = 1 \/ b % 2 = 1 THEN 1 ELSE 0) + 2 * BitOr(a \div 2, b \div 2)

makeParameterId(base, bank, index) ==
    BitOr(base, BitOr(bank * 256, index * 65536))

\* base = id & 0xFF, bank = (id >> 8) & 0xFF, index = (id >> 16) & 0xFF
parseParameterId(id) ==
    [base |-> id % 256, bank |-> (id \div 256) % 256, index |-> (id \div 65536) % 256]

clampValue(value, min, max) ==
    IF value < min THEN min ELSE IF value > max THEN max ELSE value

\* the entries of setupSystemConstraints for the two thresholds
setupSystemConstraints ==
    (PARAM_PRESSURE_THRESHOLD :> [minValue |-> 5, maxValue |-> 50, defaultValue |-> 18])
    @@ (PARAM_AFTERTOUCH_THRESHOLD :> [minValue |-> 10, maxValue |-> 70, defaultValue |-> 25])

\* the constructor, with the default member initialisers
RealtimeValidator ==
    [constraints |-> setupSystemConstraints,
     currentPressureThreshold |-> 18,
     currentAftertouchThreshold |-> 25]

\* the key constraints.find() ends on: parameterId, else its base, else none
NoConstraint == 0 - 1

findConstraint(rv, parameterId) ==
    IF parameterId \in DOMAIN rv.constraints THEN parameterId
    ELSE IF parseParameterId(parameterId).base \in DOMAIN rv.constraints
         THEN parseParameterId(parameterId).base
    ELSE NoConstraint

\* the customValidator lambdas of the two thresholds
customValidator(rv, key, v) ==
    IF key = PARAM_PRESSURE_THRESHOLD THEN v < rv.currentAftertouchThreshold
    ELSE v > rv.currentPressureThreshold

\* validateParameter once the constraint under key is found
validateParameterWith(rv, key, value) ==
    addErrorIf(~customValidator(rv, key, value),
        addErrorIf(value < rv.constraints[key].minValue \/ value > rv.constraints[key].maxValue,
                   ValidationResult,
                   ErrorDetail("OUT_OF_RANGE", "", 0, TRUE)),
        ErrorDetail("CUSTOM_VALIDATION_FAILED", "", 0, TRUE))

validateParameterAt(rv, key, value) ==
    IF key = NoConstraint
    THEN addWarning(ValidationResult,
                    [type |-> "UNKNOWN_PARAMETER", parameter |-> "", index |-> 0])
    ELSE validateParameterWith(rv, key, value)

validateParameter(rv, parameterId, value) ==
    validateParameterAt(rv, findConstraint(rv, parameterId), value)

\* updateDynamicConstraints once parseParameterId gave base
updateDynamicConstraintsOf(rv, base, newValue) ==
    IF base = PARAM_PRESSURE_THRESHOLD
    THEN [rv EXCEPT !.currentPressureThreshold = newValue,
                    !.constraints[PARAM_AFTERTOUCH_THRESHOLD].minValue = newValue + 5]
    ELSE IF base = PARAM_AFTERTOUCH_THRESHOLD
    THEN [rv EXCEPT !.currentAftertouchThreshold = newValue,
                    !.constraints[PARAM_PRESSURE_THRESHOLD].maxValue = newValue - 5]
    ELSE rv

updateDynamicConstraints(rv, parameterId, newValue) ==
    updateDynamicConstraintsOf(rv, parseParameterId(parameterId).base, newValue)

\* FastValidator::quickValidate once parameterId & 0xFF gave selector; a case
\* label is the value of its enumerator
quickValidateCase(selector, value) ==
    IF selector = PARAM_KB_CHANNEL \/ selector = PARAM_CC_CHANNEL
    THEN value >= 1 /\ value <= 16
    ELSE IF selector = PARAM_KB_SCALE THEN value <= 15
    ELSE IF selector = PARAM_KB_OCTAVE THEN value <= 7
    ELSE IF selector = PARAM_CC_ID THEN value <= 127
    ELSE IF selector = PARAM_MODE THEN value <= 4
    ELSE IF selector = PARAM_SENSITIVITY THEN value <= 4
    ELSE IF selector = PARAM_BRIGHTNESS THEN value <= 15
    ELSE TRUE

quickValidate(parameterId, value) == quickValidateCase(parameterId % 256, value)

(***************************************************************************)
(* State                                                                   *)
(***************************************************************************)
VARIABLES
    cell,           \* a TripleRedundant<uint32_t> on its own
    cellLast,       \* the last operation on cell: [op, before, ret]
    cellSet,        \* the value of the last setValue (T{} after construction)
    cellHit,        \* the slots corrupted since the last setValue
    power,          \* "on" while the firmware runs, "off" after power is lost
    criticalData,   \* CriticalDataProtector::criticalData
    files,          \* the three backing files, in the order of FileNames
    begun,          \* how many ConfigurationTransaction objects were constructed
    txOpen,         \* the ConfigurationTransaction objects that are alive
    txs,            \* their fields
    last,           \* the last call on the protector: [op, tx, ret]
    crash,          \* what a commit was doing when power was lost
    globals,        \* cfg, calibration_data, kb_cfg and cc_cfg of Configuration.cpp
    recoverySystem, \* the ConfigurationRecoverySystem object
    snapFiles,      \* the snapshot files, slot i being element i + 1
    recoveryStatsFile, \* the file of the recovery statistics
    created,        \* how many snapshots createSnapshot() has made
    rlast,          \* the last call on the recovery system: what it was given and
                    \* gave, the state before it, and how many recoveries and
                    \* restarts there have been
    bootManager,    \* the ValidationBootManager object
    bootStatsFile,  \* the file of the boot statistics
    configDoc,      \* the configuration file of DataManager
    boot,           \* where performBootSequence() is (pc) and the history of the
                    \* call: how many calls there were, the boot statistics
                    \* file before the call, what LittleFS did, the stages
                    \* entered, whether a stage failed, whether the statistics
                    \* file could be written, whether validateConfiguration()
                    \* gave false, how often attemptRecovery() was called
    probe,          \* a call of a function of the validators: its arguments
                    \* and, once it was made, what it returned
    clock,          \* millis() and the polls of checkPeriodicSnapshot(): [now,
                    \* since, polls, taken, at, fired]
    realtime        \* the RealtimeValidator, the thresholds the accepted
                    \* writes carried, and the last write: [validator,
                    \* pressureThreshold, aftertouchThreshold, last]

cellVars == <<cell, cellLast, cellSet, cellHit>>

protVars == <<power, criticalData, files, begun, txOpen, txs, last, crash>>

recVars == <<globals, recoverySystem, snapFiles, recoveryStatsFile, created, rlast>>

\* what the protector and the cell on its own leave alone
bootVars == <<bootManager, bootStatsFile, configDoc, boot>>

valVars == <<probe, realtime, clock>>

sysVars == <<recVars, bootVars, valVars>>

vars == <<cell, cellLast, cellSet, cellHit,
          power, criticalData, files, begun, txOpen, txs, last, crash,
          globals, recoverySystem, snapFiles, recoveryStatsFile, created, rlast,
          bootManager, bootStatsFile, configDoc, boot, probe, realtime, clock>>

(***************************************************************************)
(* A TripleRedundant<uint32_t> under memory corruption                     *)
(***************************************************************************)
CellType == "u32"

\* 0x12345678 is the value of ValidationTestSuite::testTripleRedundancy
CellValues == {0, 7, 305419896}

\* what a corrupted checksum word may read: the checksum of some value, or
\* a word that is the checksum of none of them
CellSums == {crc32(Bytes(CellType, v)) : v \in CellValues} \cup {0}

Slots == {"primary", "backup1", "backup2"}

SlotValue(c, s) ==
    CASE s = "primary" -> c.primary [] s = "backup1" -> c.backup1 [] s = "backup2" -> c.backup2

SlotChecksum(c, s) ==
    CASE s = "primary" -> c.primaryChecksum
      [] s = "backup1" -> c.backup1Checksum
      [] s = "backup2" -> c.backup2Checksum

SlotValid(T, c, s) == crc32(Bytes(T, SlotValue(c, s))) = SlotChecksum(c, s)

WithSlotValue(c, s, v) ==
    CASE s = "primary" -> [c EXCEPT !.primary = v]
      [] s = "backup1" -> [c EXCEPT !.backup1 = v]
      [] s = "backup2" -> [c EXCEPT !.backup2 = v]

WithSlotChecksum(c, s, k) ==
    CASE s = "primary" -> [c EXCEPT !.primaryChecksum = k]
      [] s = "backup1" -> [c EXCEPT !.backup1Checksum = k]
      [] s = "backup2" -> [c EXCEPT !.backup2Checksum = k]

NoCell == <<>>

CellInit ==
    /\ cell = TripleRedundant(CellType)
    /\ cellLast = [op |-> "TripleRedundant", before |-> NoCell, ret |-> 0]
    /\ cellSet = DefaultOf(CellType)
    /\ cellHit = {}

CellSetValue(v) ==
    /\ cell.generationCounter < MaxGeneration
    /\ cell' = setValue(CellType, cell, v)
    /\ cellLast' = [op |-> "setValue", before |-> NoCell, ret |-> 0]
    /\ cellSet' = v
    /\ cellHit' = {}
    /\ UNCHANGED <<protVars, sysVars>>

\* a bit flip in the data bytes of one slot
CellCorruptData(s, v) ==
    /\ v # SlotValue(cell, s)
    /\ cell' = WithSlotValue(cell, s, v)
    /\ cellLast' = [op |-> "corrupt", before |-> NoCell, ret |-> 0]
    /\ cellHit' = cellHit \cup {s}
    /\ UNCHANGED <<cellSet, protVars, sysVars>>

\* a bit flip in the stored checksum of one slot
CellCorruptChecksum(s, k) ==
    /\ k # SlotChecksum(cell, s)
    /\ cell' = WithSlotChecksum(cell, s, k)
    /\ cellLast' = [op |-> "corrupt", before |-> NoCell, ret |-> 0]
    /\ cellHit' = cellHit \cup {s}
    /\ UNCHANGED <<cellSet, protVars, sysVars>>

CellGetMajorityValue ==
    /\ LET r == getMajorityValue(CellType, cell)
       IN  /\ cell' = r.self
           /\ cellLast' = [op |-> "getMajorityValue", before |-> cell, ret |-> r.value]
    /\ UNCHANGED <<cellSet, cellHit, protVars, sysVars>>

CellNext ==
    \/ \E v \in CellValues : CellSetValue(v)
    \/ \E s \in Slots, v \in CellValues : CellCorruptData(s, v)
    \/ \E s \in Slots, k \in CellSums : CellCorruptChecksum(s, k)
    \/ CellGetMajorityValue

(***************************************************************************)
(* The protector, its files and its transactions                           *)
(***************************************************************************)
TxIds == 1..MaxTx

\* the fields of a transaction that is not alive: those of one constructed
\* on a new protector
ClosedTx ==
    [originalConfig |-> getFactoryConfiguration,
     originalCalibration |-> getFactoryCalibration,
     committed |-> FALSE, configModified |-> FALSE, calibrationModified |-> FALSE]

\* ValidationTestSuite::testTransactionRollback: brightness = 15
configBright == [getFactoryConfiguration EXCEPT !.brightness = 15]

configMode5 == [getFactoryConfiguration EXCEPT !.mode = 5]

configBadScale2 == [getFactoryConfiguration EXCEPT !.custom_scale2[2] = 25]

CandidateConfigs == {configBright, configMode5, configBadScale2}

\* ValidationTestSuite::createValidCalibration
calibValid ==
    [minVal |-> [i \in 1..NUM_CAL |-> 100 + (i - 1) * 10],
     maxVal |-> [i \in 1..NUM_CAL |-> 3900 - (i - 1) * 10]]

\* ValidationTestSuite::createCorruptCalibration
calibInverted == [calibValid EXCEPT !.minVal[1] = 4000, !.maxVal[1] = 100]

calibOver == [calibValid EXCEPT !.maxVal[3] = 5000]

CandidateCalibrations == {calibValid, calibInverted, calibOver}

\* each file.write() wrote all of sizeof(CriticalData)
AllWritten == [i \in 1..3 |-> SIZEOF_CRITICAL_DATA]

\* the write of /critical_backup1.dat comes back short
Backup1Short == [AllWritten EXCEPT ![2] = 0]

WritePatterns == {AllWritten, Backup1Short}

NoCrash == [active |-> FALSE, preOk |-> FALSE, pre |-> NoData, post |-> NoData]

Call(op, t, ret) == [op |-> op, tx |-> t, ret |-> ret]

ProtInit ==
    /\ power = "on"
    /\ criticalData = CriticalDataProtector
    /\ files = <<NoFile, NoFile, NoFile>>
    /\ begun = 0
    /\ txOpen = {}
    /\ txs = [t \in TxIds |-> ClosedTx]
    /\ last = Call("CriticalDataProtector", 0, TRUE)
    /\ crash = NoCrash

\* the recovery system after its constructor, on a storage without files
RecInit ==
    /\ globals = Globals
    /\ recoverySystem = ConfigurationRecoverySystem
    /\ snapFiles = [i \in 1..MAX_SNAPSHOTS |-> NoSnapshotFile]
    /\ recoveryStatsFile = NoStatsFile
    /\ created = 0
    /\ rlast = [op |-> "ConfigurationRecoverySystem", ret |-> TRUE, level |-> "NONE",
                idx |-> -1, validation |-> ValidationResult, before |-> NoWorld,
                calls |-> 0, restarts |-> 0]

\* the manager after its constructor, a storage without the two files,
\* performBootSequence() not called yet
BootInit ==
    /\ bootManager = ValidationBootManager
    /\ bootStatsFile = NoBootStats
    /\ configDoc = NoDocument
    /\ boot = [pc |-> "start", calls |-> 0, before |-> NoBootStats, mount |-> "mounted",
               stages |-> {}, failed |-> FALSE, opened |-> TRUE,
                invalid |-> FALSE, attempts |-> 0]

\* no call of a validator function is being looked at
NoProbe ==
    [op |-> "none", config |-> ConfigurationData, level |-> "COMPREHENSIVE",
     calibration |-> CalibrationData, parameterId |-> 0, value |-> 0, out |-> <<>>]

\* a RealtimeValidator as constructed; the thresholds in use are the defaults
RealtimeInit ==
    realtime = [validator |-> RealtimeValidator,
                pressureThreshold |-> 18,
                aftertouchThreshold |-> 25,
                last |-> [parameterId |-> 0, value |-> 0, accepted |-> FALSE]]

\* millis() is 0 when the firmware starts; since is the time that really
\* passed since the last periodic snapshot (since the start before the first
\* one), at is what it was at the last poll, fired whether that poll created
\* a snapshot
ClockInit ==
    clock = [now |-> 0, since |-> [hi |-> 0, lo |-> 0], polls |-> 0, taken |-> 0,
             at |-> [hi |-> 0, lo |-> 0], fired |-> FALSE]

ValInit == probe = NoProbe /\ RealtimeInit /\ ClockInit

Init == CellInit /\ ProtInit /\ RecInit /\ BootInit /\ ValInit

\* a call on transaction t gave r
Returned(op, t, r) ==
    /\ criticalData' = r.criticalData
    /\ txs' = [txs EXCEPT ![t] = r.txn]
    /\ last' = Call(op, t, r.ret)

\* beginTransaction() gave r, which becomes transaction t
Began(t, r) ==
    /\ criticalData' = r.criticalData
    /\ txs' = [txs EXCEPT ![t] = r.txn]
    /\ last' = Call("beginTransaction", t, TRUE)

\* transaction t is the t-th object constructed
BeginTransaction(t) ==
    /\ power = "on"
    /\ t = begun + 1
    /\ begun' = t
    /\ Began(t, beginTransaction(criticalData))
    /\ txOpen' = txOpen \cup {t}
    /\ UNCHANGED <<power, files, crash, cellVars, sysVars>>

UpdateConfiguration(t, newConfig) ==
    /\ power = "on"
    /\ t \in txOpen
    /\ criticalData.configuration.generationCounter < MaxGeneration
    /\ Returned("updateConfiguration", t, updateConfiguration(criticalData, txs[t], newConfig))
    /\ UNCHANGED <<power, files, begun, txOpen, crash, cellVars, sysVars>>

UpdateCalibration(t, newCalibration) ==
    /\ power = "on"
    /\ t \in txOpen
    /\ criticalData.calibration.generationCounter < MaxGeneration
    /\ Returned("updateCalibration", t, updateCalibration(criticalData, txs[t], newCalibration))
    /\ UNCHANGED <<power, files, begun, txOpen, crash, cellVars, sysVars>>

\* commit() on transaction t gave r
Committed(t, r) ==
    /\ criticalData' = r.criticalData
    /\ txs' = [txs EXCEPT ![t] = r.txn]
    /\ files' = r.files
    /\ last' = Call("commit", t, r.ret)

\* commit() returns nothing; ret records whether the three writes succeeded
Commit(t, written) ==
    /\ power = "on"
    /\ t \in txOpen
    /\ Committed(t, commit(criticalData, txs[t], files, written))
    /\ UNCHANGED <<power, begun, txOpen, crash, cellVars, sysVars>>

\* a destructor that saves what it rolled back
DestroyTransactionPersisting(t) ==
    /\ power = "on"
    /\ t \in txOpen
    /\ criticalData' = destroyTransaction(criticalData, txs[t])
    /\ files' = persistCriticalData(criticalData', files, AllWritten).files
    /\ txs' = [txs EXCEPT ![t] = ClosedTx]
    /\ txOpen' = txOpen \ {t}
    /\ last' = Call(IF txs[t].committed THEN "destroyCommitted" ELSE "rollback", t, TRUE)
    /\ UNCHANGED <<power, begun, crash, cellVars, sysVars>>

\* the transaction object goes out of scope
DestroyTransaction(t) ==
    /\ power = "on"
    /\ t \in txOpen
    /\ criticalData' = destroyTransaction(criticalData, txs[t])
    /\ txs' = [txs EXCEPT ![t] = ClosedTx]
    /\ txOpen' = txOpen \ {t}
    /\ last' = Call(IF txs[t].committed THEN "destroyCommitted" ELSE "rollback", t, TRUE)
    /\ UNCHANGED <<power, files, begun, crash, cellVars, sysVars>>

\* Power is lost inside the persistCriticalData of commit(): the first k
\* files are written, the write of file k+1 is cut (the file is not opened
\* yet, or it is opened and truncated and nothing of it is on flash), the
\* later files are not reached.  What was in memory is gone.  crash records
\* what a load of the files gave before the commit and what the commit wrote.
WrittenUntil(k, cut) ==
    [i \in 1..3 |-> IF i <= k THEN SIZEOF_CRITICAL_DATA
                    ELSE IF i = k + 1 THEN cut ELSE OPEN_FAILED]

\* the commit r was cut; a load of the files before it gave stored
PowerLost(r, stored) ==
    /\ files' = r.files
    /\ crash' = [active |-> TRUE, preOk |-> stored.ret,
                 pre |-> IF stored.ret THEN stored.criticalData ELSE NoData,
                 post |-> r.criticalData]

CommitPowerLoss(t, k, cut) ==
    /\ power = "on"
    /\ t \in txOpen
    /\ PowerLost(commit(criticalData, txs[t], files, WrittenUntil(k, cut)),
                 loadCriticalData(CriticalDataProtector, files))
    /\ power' = "off"
    /\ criticalData' = CriticalDataProtector
    /\ txOpen' = {}
    /\ txs' = [u \in TxIds |-> ClosedTx]
    /\ last' = Call("powerLoss", t, FALSE)
    /\ UNCHANGED <<begun, cellVars, sysVars>>

\* power is switched off while no call is running
PowerOff ==
    /\ power = "on"
    /\ power' = "off"
    /\ criticalData' = CriticalDataProtector
    /\ txOpen' = {}
    /\ txs' = [u \in TxIds |-> ClosedTx]
    /\ last' = Call("powerOff", 0, FALSE)
    /\ crash' = NoCrash
    /\ UNCHANGED <<files, begun, cellVars, sysVars>>

\* initialize() gave r
Initialized(r) ==
    /\ criticalData' = r.criticalData
    /\ files' = r.files
    /\ last' = Call("initialize", 0, r.ret)

\* the next boot: a new CriticalDataProtector and its initialize()
Boot(mounted, written) ==
    /\ power = "off"
    /\ Initialized(initialize(CriticalDataProtector, files, mounted, written))
    /\ power' = "on"
    /\ crash' = NoCrash
    /\ UNCHANGED <<begun, txOpen, txs, cellVars, sysVars>>

Next ==
    \/ \E t \in TxIds : txOpen = {} /\ BeginTransaction(t)
    \/ \E t \in TxIds, c \in CandidateConfigs : UpdateConfiguration(t, c)
    \/ \E t \in TxIds, k \in CandidateCalibrations : UpdateCalibration(t, k)
    \/ \E t \in TxIds, w \in WritePatterns : Commit(t, w)
    \/ \E t \in TxIds : DestroyTransaction(t)

\* transactions on a running protector, one at a time
Spec == Init /\ [][Next]_vars

OverlapNext ==
    \/ \E t \in TxIds : BeginTransaction(t)
    \/ \E t \in TxIds, c \in {configBright, configBadScale2} : UpdateConfiguration(t, c)
    \/ \E t \in TxIds : Commit(t, AllWritten)
    \/ \E t \in TxIds : DestroyTransaction(t)

\* transactions begun while others are open: beginTransaction() hands out a
\* new object whenever it is called
SpecOverlap == Init /\ [][OverlapNext]_vars

\* a TripleRedundant<uint32_t> whose memory is corrupted
SpecCell == Init /\ [][CellNext]_vars

CrashNext ==
    \/ \E t \in TxIds : txOpen = {} /\ BeginTransaction(t)
    \/ \E t \in TxIds, c \in {configBright, configMode5} : UpdateConfiguration(t, c)
    \/ \E t \in TxIds : Commit(t, AllWritten)
    \/ \E t \in TxIds : DestroyTransaction(t)
    \/ \E t \in TxIds, k \in 0..2, cut \in {OPEN_FAILED, 0} : CommitPowerLoss(t, k, cut)
    \/ PowerOff
    \/ \E w \in {AllWritten, [i \in 1..3 |-> 0]} : Boot(TRUE, w)

\* one transaction at a time, with power lost during commits
SpecCrash == Init /\ [][CrashNext]_vars

(***************************************************************************)
(* The recovery system in use                                              *)
(***************************************************************************)
MaxCreated == 3
MaxRecoveries == 2
MaxRestarts == 1

\* what millis() may give
Millis == {1000}

World ==
    [rs |-> recoverySystem, snapFiles |-> snapFiles, statsFile |-> recoveryStatsFile,
     g |-> globals, created |-> created]

WorldBecomes(w) ==
    /\ recoverySystem' = w.rs
    /\ snapFiles' = w.snapFiles
    /\ recoveryStatsFile' = w.statsFile
    /\ globals' = w.g
    /\ created' = w.created

\* a call on the recovery system gave r
RecoveryReturned(op, validation, r) ==
    /\ WorldBecomes(r.w)
    /\ rlast' = [op |-> op, ret |-> r.ret, level |-> r.level, idx |-> r.idx,
                 validation |-> validation,
                 before |-> IF op = "attemptAutoRecovery" THEN World ELSE NoWorld,
                 calls |-> IF op = "attemptAutoRecovery" THEN rlast.calls + 1 ELSE rlast.calls,
                 restarts |-> rlast.restarts]

\* initialize(), as long as fewer than max snapshots were created
RecoveryInitializeWithin(max, now) ==
    /\ created < max
    /\ RecoveryReturned("initialize", ValidationResult,
            [ret |-> TRUE, level |-> "NONE", idx |-> -1, w |-> recoveryInitialize(World, now)])
    /\ UNCHANGED <<cellVars, protVars, bootVars, valVars>>

RecoveryInitialize(now) == RecoveryInitializeWithin(MaxCreated, now)

\* createSnapshot(reason, description), as long as fewer than max snapshots
\* were created
RecoveryCreateSnapshotWithin(max, reason, now) ==
    /\ created < max
    /\ RecoveryReturned("createSnapshot", ValidationResult,
            [ret |-> TRUE, level |-> "NONE", idx |-> -1, w |-> createSnapshot(World, reason, now)])
    /\ UNCHANGED <<cellVars, protVars, bootVars, valVars>>

RecoveryCreateSnapshot(reason, now) == RecoveryCreateSnapshotWithin(MaxCreated, reason, now)

RecoveryContext ==
    [variant |-> "T16", firmwareVersion |-> FIRMWARE_VERSION, strictMode |-> TRUE,
     level |-> "COMPREHENSIVE"]

\* the results the validators give for the live configuration
LiveValidations ==
    {validateConfiguration(globals.cfg, RecoveryContext),
     validateCalibrationData(globals.calibration_data, RecoveryContext)}
    \cup {validateKeyModeData(globals.kb_cfg[b], b - 1, RecoveryContext) : b \in 1..BANK_AMT}
    \cup {validateControlChangeData(globals.cc_cfg[b], b - 1, RecoveryContext) : b \in 1..BANK_AMT}

RecoveryAttempt(validation, now) ==
    /\ rlast.calls < MaxRecoveries
    /\ RecoveryReturned("attemptAutoRecovery", validation,
                        attemptAutoRecovery(World, validation, now))
    /\ UNCHANGED <<cellVars, protVars, bootVars, valVars>>

\* the device restarts: the globals and the recovery system are constructed
\* anew, the files stay
RecoveryRestart ==
    /\ rlast.restarts < MaxRestarts
    /\ recoverySystem' = ConfigurationRecoverySystem
    /\ globals' = Globals
    /\ rlast' = [op |-> "restart", ret |-> TRUE, level |-> "NONE", idx |-> -1,
                 validation |-> ValidationResult, before |-> NoWorld,
                 calls |-> rlast.calls, restarts |-> rlast.restarts + 1]
    /\ UNCHANGED <<snapFiles, recoveryStatsFile, created, cellVars, protVars, bootVars, valVars>>

kbChannel0 == [KeyModeData EXCEPT !.channel = 0]

\* the globals after the static initialisation and one edit
EditedGlobals ==
    {[Globals EXCEPT !.cfg = configBadScale2],
     [Globals EXCEPT !.kb_cfg[1] = kbChannel0],
     [Globals EXCEPT !.cfg = configBadScale2, !.kb_cfg[1] = kbChannel0]}

\* the firmware writes the globals as the user edits the configuration
EditGlobals(g) ==
    /\ globals # g
    /\ globals' = g
    /\ rlast' = [op |-> "edit", ret |-> TRUE, level |-> "NONE", idx |-> -1,
                 validation |-> ValidationResult, before |-> NoWorld,
                 calls |-> rlast.calls, restarts |-> rlast.restarts]
    /\ UNCHANGED <<recoverySystem, snapFiles, recoveryStatsFile, created,
                   cellVars, protVars, bootVars, valVars>>

RecoveryNext ==
    \/ \E now \in Millis : RecoveryInitialize(now)
    \/ \E now \in Millis : RecoveryCreateSnapshot("USER_REQUEST", now)
    \/ \E now \in Millis : \E v \in LiveValidations : RecoveryAttempt(v, now)
    \/ RecoveryRestart
    \/ \E g \in EditedGlobals : EditGlobals(g)

\* the recovery system called while the configuration is edited and across
\* restarts
SpecRecovery == Init /\ [][RecoveryNext]_vars

(***************************************************************************)
(* The snapshot ring alone (SpecRing): enough snapshots to wrap it         *)
(***************************************************************************)
MaxRing == 7

RingInitialize(now) == RecoveryInitializeWithin(MaxRing, now)

RingCreateSnapshot(now) == RecoveryCreateSnapshotWithin(MaxRing, "USER_REQUEST", now)

RingNext ==
    \/ \E now \in Millis : RingInitialize(now)
    \/ \E now \in Millis : RingCreateSnapshot(now)
    \/ RecoveryRestart

SpecRing == Init /\ [][RingNext]_vars

(***************************************************************************)
(* The configuration validator on its own (SpecValidate)                   *)
(***************************************************************************)
ValidationLevels == {"BASIC", "STANDARD", "COMPREHENSIVE", "PARANOID"}

\* a custom scale: all notes in range, one note above or below the range,
\* and a table marked undefined (first note 0xFF) that holds a note out of
\* range
ScaleTables ==
    {[i \in 1..SCALE_LEN |-> i - 1],
     [i \in 1..SCALE_LEN |-> IF i = 2 THEN 25 ELSE i - 1],
     [i \in 1..SCALE_LEN |-> IF i = 16 THEN -25 ELSE i - 1],
     [i \in 1..SCALE_LEN |-> IF i = 1 THEN -1 ELSE IF i = 3 THEN 100 ELSE i - 1]}

\* configurations with every field at a value in range and at one beyond
ProbeConfigs ==
    {[version |-> FIRMWARE_VERSION, mode |-> mode, sensitivity |-> sensitivity,
      brightness |-> brightness, palette |-> palette,
      midi_trs |-> flags[1], trs_type |-> flags[2], passthrough |-> flags[3],
      midi_ble |-> flags[4], custom_scale1 |-> scale1, custom_scale2 |-> scale2,
      hasChanged |-> FALSE] :
        mode \in {4, 5}, sensitivity \in {4, 5}, brightness \in {15, 16},
        palette \in {3, 4},
        flags \in {<<1, 1, 1, 1>>, <<2, 0, 0, 0>>, <<0, 2, 0, 0>>, <<0, 0, 2, 0>>,
                   <<0, 0, 0, 2>>},
        scale1 \in ScaleTables, scale2 \in ScaleTables}

ProbeCalibrations == CandidateCalibrations

ProbeInit ==
    \/ \E c \in ProbeConfigs, l \in ValidationLevels :
          probe = [NoProbe EXCEPT !.config = c, !.level = l]
    \/ \E k \in ProbeCalibrations : probe = [NoProbe EXCEPT !.calibration = k]

ProbeContext ==
    [variant |-> "T16", firmwareVersion |-> FIRMWARE_VERSION, strictMode |-> TRUE,
     level |-> probe.level]

\* validateConfiguration, autoFixConfiguration with its result, and
\* validateConfiguration of what autoFixConfiguration left; r is the first
\* result, f what autoFixConfiguration gave
ValidateFixValidateFixed(r, f) ==
    [first |-> r, fixed |-> f.ret, config |-> f.config,
     second |-> validateConfiguration(f.config, ProbeContext)]

ValidateFixValidateFirst(r) ==
    ValidateFixValidateFixed(r, autoFixConfiguration(probe.config, r))

ProbeReturned(op, out) ==
    /\ probe.op = "none"
    /\ probe' = [probe EXCEPT !.op = op, !.out = out]
    /\ UNCHANGED <<cellVars, protVars, recVars, bootVars, realtime, clock>>

ValidateFixValidate ==
    ProbeReturned("validateFixValidate",
        ValidateFixValidateFirst(validateConfiguration(probe.config, ProbeContext)))

ValidateConfiguration ==
    ProbeReturned("validateConfiguration", validateConfiguration(probe.config, ProbeContext))

ValidateCalibrationData ==
    ProbeReturned("validateCalibrationData",
                  validateCalibrationData(probe.calibration, ProbeContext))

ValidateNext ==
    \/ ValidateFixValidate
    \/ ValidateConfiguration
    \/ ValidateCalibrationData

\* nothing else runs; a call of the validator is about to be made
ValidateInit == CellInit /\ ProtInit /\ RecInit /\ BootInit /\ RealtimeInit /\ ClockInit /\ ProbeInit

SpecValidate == ValidateInit /\ [][ValidateNext]_vars

(***************************************************************************)
(* FastValidator::quickValidate on its own (SpecFast)                      *)
(***************************************************************************)
\* the parameters quickValidate has a case for
FastParameters ==
    {PARAM_KB_CHANNEL, PARAM_CC_CHANNEL, PARAM_KB_SCALE, PARAM_KB_OCTAVE, PARAM_CC_ID,
     PARAM_MODE, PARAM_SENSITIVITY, PARAM_BRIGHTNESS}

MaxFastValue == 130

\* uint32_t values: around every range, and some far above
FastValues == 0..MaxFastValue \cup {255, 256, 65535}

FastProbeInit ==
    \E id \in FastParameters, v \in FastValues :
        probe = [NoProbe EXCEPT !.parameterId = id, !.value = v]

QuickValidate ==
    ProbeReturned("quickValidate", quickValidate(probe.parameterId, probe.value))

FastNext == QuickValidate

FastInit == CellInit /\ ProtInit /\ RecInit /\ BootInit /\ RealtimeInit /\ ClockInit /\ FastProbeInit

SpecFast == FastInit /\ [][FastNext]_vars

(***************************************************************************)
(* Threshold writes through the RealtimeValidator (SpecRealtime)           *)
(***************************************************************************)
\* hundredths offered as threshold values
ThresholdValues == {0, 4, 5, 10, 15, 18, 19, 20, 24, 25, 26, 30, 45, 50, 51, 70, 71}

\* the write of value to the threshold parameterId was validated with result
ThresholdWritten(parameterId, value, result) ==
    realtime' =
        IF ~result.isValid
        THEN [realtime EXCEPT !.last = [parameterId |-> parameterId, value |-> value,
                                        accepted |-> FALSE]]
        ELSE [validator |-> updateDynamicConstraints(realtime.validator, parameterId, value),
              pressureThreshold |->
                  IF parameterId = PARAM_PRESSURE_THRESHOLD
                  THEN value ELSE realtime.pressureThreshold,
              aftertouchThreshold |->
                  IF parameterId = PARAM_AFTERTOUCH_THRESHOLD
                  THEN value ELSE realtime.aftertouchThreshold,
              last |-> [parameterId |-> parameterId, value |-> value, accepted |-> TRUE]]

\* validateParameter(id, value); when it reports no error the value is taken
\* and updateDynamicConstraints(id, value) is called
WriteThreshold(base, value) ==
    /\ ThresholdWritten(makeParameterId(base, 0, 0), value,
                        validateParameter(realtime.validator,
                                          makeParameterId(base, 0, 0), value))
    /\ UNCHANGED <<cellVars, protVars, recVars, bootVars, probe, clock>>

WritePressureThreshold(value) == WriteThreshold(PARAM_PRESSURE_THRESHOLD, value)

WriteAftertouchThreshold(value) == WriteThreshold(PARAM_AFTERTOUCH_THRESHOLD, value)

RealtimeNext ==
    \/ \E v \in ThresholdValues : WritePressureThreshold(v)
    \/ \E v \in ThresholdValues : WriteAftertouchThreshold(v)

SpecRealtime == Init /\ [][RealtimeNext]_vars

(***************************************************************************)
(* Factory reset of a protector in use (SpecReset)                         *)
(***************************************************************************)
DeviceSerials == {7, 305419896}

SetDeviceSerial(serial) ==
    /\ power = "on"
    /\ criticalData.deviceSerial.generationCounter < MaxGeneration
    /\ criticalData' = setDeviceSerial(criticalData, serial)
    /\ last' = Call("setDeviceSerial", 0, TRUE)
    /\ UNCHANGED <<power, files, begun, txOpen, txs, crash, cellVars, sysVars>>

\* factoryReset returns nothing; ret keeps preserveCalibration
FactoryReset(preserveCalibration) ==
    /\ power = "on"
    /\ criticalData.configuration.generationCounter < MaxGeneration
    /\ criticalData.calibration.generationCounter < MaxGeneration
    /\ criticalData.deviceSerial.generationCounter < MaxGeneration
    /\ criticalData' = factoryReset(criticalData, preserveCalibration)
    /\ last' = Call("factoryReset", 0, preserveCalibration)
    /\ UNCHANGED <<power, files, begun, txOpen, txs, crash, cellVars, sysVars>>

ResetNext ==
    \/ \E t \in TxIds : txOpen = {} /\ BeginTransaction(t)
    \/ \E t \in TxIds : UpdateConfiguration(t, configBright)
    \/ \E t \in TxIds : UpdateCalibration(t, calibValid)
    \/ \E t \in TxIds : Commit(t, AllWritten)
    \/ \E t \in TxIds : DestroyTransaction(t)
    \/ \E serial \in DeviceSerials : SetDeviceSerial(serial)
    \/ \E preserveCalibration \in BOOLEAN : FactoryReset(preserveCalibration)

SpecReset == Init /\ [][ResetNext]_vars

(***************************************************************************)
(* Booting from files found on flash (SpecLoad)                            *)
(***************************************************************************)
\* what persistCriticalData writes on the first boot
imageFactory == CriticalDataProtector

\* what a commit of configBright and calibValid writes
imageTuned ==
    updateStructureChecksum(
        [CriticalDataProtector EXCEPT
            !.configuration = setValue("cfg", @, configBright),
            !.calibration = setValue("cal", @, calibValid)])

\* imageTuned with another magic
imageBadMagic == [imageTuned EXCEPT !.magic = 0]

\* imageTuned with a structure checksum that is not the one of its contents
imageBadChecksum == [imageTuned EXCEPT !.structureChecksum = (@ + 1) % CRC_MOD]

FileOf(image) == [exists |-> TRUE, size |-> SIZEOF_CRITICAL_DATA, data |-> image]

\* a file cut short
ShortFile == [exists |-> TRUE, size |-> 0, data |-> NoData]

FoundFiles ==
    {NoFile, ShortFile, FileOf(imageFactory), FileOf(imageTuned),
     FileOf(imageBadMagic), FileOf(imageBadChecksum)}

\* the device is off, with any three files on flash
FoundInit ==
    /\ power = "off"
    /\ criticalData = CriticalDataProtector
    /\ files \in FoundFiles \X FoundFiles \X FoundFiles
    /\ begun = 0
    /\ txOpen = {}
    /\ txs = [t \in TxIds |-> ClosedTx]
    /\ last = Call("powerOff", 0, FALSE)
    /\ crash = NoCrash

LoadNext ==
    \/ \E written \in WritePatterns : Boot(TRUE, written)
    \/ PowerOff

LoadInit == CellInit /\ FoundInit /\ RecInit /\ BootInit /\ ValInit

SpecLoad == LoadInit /\ [][LoadNext]_vars

(***************************************************************************)
(* Calibration updates through transactions (SpecCalibration)              *)
(***************************************************************************)
\* one key with minVal = maxVal = 4095: neither check of
\* validateCalibrationData applies
calibFlat == [calibValid EXCEPT !.minVal[2] = ADC_MAX, !.maxVal[2] = ADC_MAX]

\* inverted and above the ADC maximum at once
calibInvertedOver == [calibValid EXCEPT !.minVal[4] = 6000, !.maxVal[4] = 5000]

OfferedCalibrations ==
    CandidateCalibrations \cup {getFactoryCalibration, calibFlat, calibInvertedOver}

\* updateCalibration(newCalibration) on transaction t; probe keeps the
\* argument and what validateCalibrationData gave for it
CalibrationUpdate(t, newCalibration) ==
    /\ power = "on"
    /\ t \in txOpen
    /\ criticalData.calibration.generationCounter < MaxGeneration
    /\ Returned("updateCalibration", t, updateCalibration(criticalData, txs[t], newCalibration))
    /\ probe' = [NoProbe EXCEPT
                    !.op = "updateCalibration",
                    !.calibration = newCalibration,
                    !.out = validateCalibrationData(newCalibration,
                                                    getCurrentContext(criticalData).value)]
    /\ UNCHANGED <<power, files, begun, txOpen, crash, cellVars, recVars, bootVars, realtime, clock>>

CalibrationNext ==
    \/ \E t \in TxIds : txOpen = {} /\ BeginTransaction(t)
    \/ \E t \in TxIds, k \in OfferedCalibrations : CalibrationUpdate(t, k)
    \/ \E t \in TxIds, c \in CandidateConfigs : UpdateConfiguration(t, c)
    \/ \E t \in TxIds, w \in WritePatterns : Commit(t, w)
    \/ \E t \in TxIds : DestroyTransaction(t)

SpecCalibration == Init /\ [][CalibrationNext]_vars

(***************************************************************************)
(* The boot sequence (SpecBoot)                                            *)
(*                                                                         *)
(* performBootSequence() is called once on a ValidationBootManager, as     *)
(* Validation.cpp does; between two calls the device restarts.  The        *)
(* CriticalDataProtector and the ConfigurationRecoverySystem are the       *)
(* members of the manager.                                                 *)
(***************************************************************************)
MaxBoots == 6

\* every write of a file of the critical data comes back short
NoneWritten == [i \in 1..3 |-> 0]

BootWrites == {AllWritten, NoneWritten}

Mounts == {"mounted", "formatted", "erased", "failed"}

BootResults == {"SUCCESS", "RECOVERED", "SAFE_MODE_REQUIRED", "CRITICAL_FAILURE"}

BootWorld ==
    [bm |-> bootManager, data |-> criticalData, files |-> files, w |-> World,
     bootStats |-> bootStatsFile, doc |-> configDoc, attempts |-> boot.attempts]

BootWorldBecomes(b) ==
    /\ bootManager' = b.bm
    /\ criticalData' = b.data
    /\ files' = b.files
    /\ WorldBecomes(b.w)
    /\ bootStatsFile' = b.bootStats
    /\ configDoc' = b.doc

\* a stage of performBootSequence() gave r; failed is whether the check of
\* an earlier stage gave false, invalid whether validateConfiguration() did
BootStagedInvalid(stage, failed, invalid, opened, r) ==
    /\ \E b \in {r.b} : BootWorldBecomes(b)
    /\ boot' = [boot EXCEPT !.pc = r.next, !.stages = @ \cup {stage},
                            !.failed = @ \/ failed, !.opened = opened,
                            !.invalid = invalid, !.attempts = r.b.attempts]
    /\ UNCHANGED <<cellVars, power, begun, txOpen, txs, last, crash, rlast, valVars>>

BootStaged(stage, failed, opened, r) == BootStagedInvalid(stage, failed, FALSE, opened, r)

\* performBootSequence() is called: lines 16-40
BootBegin(mount, now) ==
    /\ boot.pc = "start"
    /\ boot.calls < MaxBoots
    /\ \E b \in {performBootSequenceInit(BootWorld, mount, now).b} : BootWorldBecomes(b)
    /\ boot' = [pc |-> performBootSequenceInit(BootWorld, mount, now).next,
                calls |-> boot.calls + 1, before |-> bootStatsFile, mount |-> mount,
                stages |-> {}, failed |-> FALSE, opened |-> TRUE,
                invalid |-> FALSE, attempts |-> 0]
    /\ UNCHANGED <<cellVars, power, begun, txOpen, txs, last, crash, rlast, valVars>>

\* lines 42-59
BootCheckIntegrity(now, written, recovers) ==
    /\ boot.pc = "CHECKING_INTEGRITY"
    /\ \E r \in {performBootSequenceIntegrity(BootWorld, now, written, recovers)} :
          BootStaged("CHECKING_INTEGRITY",
                     ~checkDataIntegrity(BootWorld, written).ret, TRUE, r)

\* lines 61-81
BootLoadConfiguration(now, written, recovers) ==
    /\ boot.pc = "LOADING_CONFIG"
    /\ \E r \in {performBootSequenceLoad(BootWorld, now, written, recovers)} :
          BootStaged("LOADING_CONFIG", ~loadConfiguration(BootWorld).ret, TRUE, r)

\* lines 83-131
BootValidate(now, written, opened, recovers) ==
    /\ boot.pc = "VALIDATING_CONFIG"
    /\ \E r \in {performBootSequenceValidate(BootWorld, now, written, opened, recovers)} :
          BootStagedInvalid("VALIDATING_CONFIG", FALSE,
                            ~bootValidateConfiguration(BootWorld).ret, opened, r)

\* the device restarts after performBootSequence() returned: the manager
\* with its members and the globals are constructed anew, the files stay
BootRestart ==
    /\ boot.pc \in BootResults \cup {"running"}
    /\ boot.calls < MaxBoots
    /\ bootManager' = ValidationBootManager
    /\ criticalData' = CriticalDataProtector
    /\ recoverySystem' = ConfigurationRecoverySystem
    /\ globals' = Globals
    /\ boot' = [pc |-> "start", calls |-> boot.calls, before |-> NoBootStats,
                mount |-> "mounted", stages |-> {}, failed |-> FALSE, opened |-> TRUE,
                invalid |-> FALSE, attempts |-> 0]
    /\ UNCHANGED <<files, snapFiles, recoveryStatsFile, created, bootStatsFile, configDoc,
                   cellVars, power, begun, txOpen, txs, last, crash, rlast, valVars>>

\* what the user may make of the globals g in one edit
BootEdits(g) == {[g EXCEPT !.cfg.custom_scale2[2] = 25]}

\* after performBootSequence() returned the firmware runs (pc "running"):
\* it takes an edit of the user and SaveConfiguration() writes the
\* configuration file
BootSaveConfiguration(g) ==
    /\ boot.pc \in {"SUCCESS", "RECOVERED", "SAFE_MODE_REQUIRED"}
    /\ boot.calls < MaxBoots
    /\ globals # g
    /\ globals' = g
    /\ configDoc' = SaveConfiguration(g)
    /\ boot' = [boot EXCEPT !.pc = "running"]
    /\ UNCHANGED <<recoverySystem, snapFiles, recoveryStatsFile, created,
                   bootManager, bootStatsFile, cellVars, protVars, rlast, valVars>>

BootNext ==
    \/ \E mount \in Mounts, now \in Millis : BootBegin(mount, now)
    \/ \E now \in Millis, written \in BootWrites, recovers \in BOOLEAN :
            BootCheckIntegrity(now, written, recovers)
    \/ \E now \in Millis, written \in BootWrites, recovers \in BOOLEAN :
            BootLoadConfiguration(now, written, recovers)
    \/ \E now \in Millis, written \in BootWrites, opened \in BOOLEAN, recovers \in BOOLEAN :
            BootValidate(now, written, opened, recovers)
    \/ BootRestart
    \/ \E g \in BootEdits(globals) : BootSaveConfiguration(g)

SpecBoot == Init /\ [][BootNext]_vars

\* performBootSequence() is between two of its stages
BootRunning == boot.pc \in {"CHECKING_INTEGRITY", "LOADING_CONFIG", "VALIDATING_CONFIG"}

\* performBootSequence() is straight-line code on one task: once called it
\* goes on to its next stage.  This is weak fairness of the three stage
\* actions, written out: one of them is enabled exactly while BootRunning
\* holds, and they are the only steps of BootNext from such a state.
BootStageFairness == []<>(~BootRunning) \/ []<><<BootRunning>>_vars

SpecBootFair == Init /\ [][BootNext]_vars /\ BootStageFairness

(***************************************************************************)
(* Booting from files with a cell that has no valid copy (SpecDeadCell)    *)
(***************************************************************************)
\* cell c with the three checksums off: no copy of it is valid
deadCell(c) ==
    [c EXCEPT !.primaryChecksum = (@ + 1) % CRC_MOD,
              !.backup1Checksum = (@ + 1) % CRC_MOD,
              !.backup2Checksum = (@ + 1) % CRC_MOD]

\* imageTuned after the configuration cell lost its three copies
imageDeadConfiguration == [imageTuned EXCEPT !.configuration = deadCell(@)]

\* imageTuned after the calibration cell lost its three copies
imageDeadCalibration == [imageTuned EXCEPT !.calibration = deadCell(@)]

DeadCellFiles ==
    {NoFile, FileOf(imageTuned), FileOf(imageDeadConfiguration),
     FileOf(imageDeadCalibration)}

\* the device as constructed, with any three of these files on flash
DeadCellInit ==
    /\ CellInit
    /\ power = "on"
    /\ criticalData = CriticalDataProtector
    /\ files \in DeadCellFiles \X DeadCellFiles \X DeadCellFiles
    /\ begun = 0
    /\ txOpen = {}
    /\ txs = [t \in TxIds |-> ClosedTx]
    /\ last = Call("CriticalDataProtector", 0, TRUE)
    /\ crash = NoCrash
    /\ RecInit
    /\ BootInit
    /\ ValInit

\* one performBootSequence() on a mounted file system
DeadCellNext ==
    \/ \E now \in Millis : BootBegin("mounted", now)
    \/ \E now \in Millis, written \in BootWrites, recovers \in BOOLEAN :
            BootCheckIntegrity(now, written, recovers)
    \/ \E now \in Millis, written \in BootWrites, recovers \in BOOLEAN :
            BootLoadConfiguration(now, written, recovers)
    \/ \E now \in Millis, written \in BootWrites, opened \in BOOLEAN, recovers \in BOOLEAN :
            BootValidate(now, written, opened, recovers)

SpecDeadCell == DeadCellInit /\ [][DeadCellNext]_vars

(***************************************************************************)
(* SpecPeriodic: the main loop polls checkPeriodicSnapshot() while millis() *)
(* runs on and wraps; snapshots are also taken on request.                 *)
(***************************************************************************)
MaxPolls == 4
MaxRequested == 1

\* how long the loop may take from one poll to the next, in halves: 1 ms, one
\* below the interval, the interval, 2^31 ms, 2^32 ms less the interval,
\* 2^32 - 1 ms
PeriodicSteps ==
    {[hi |-> 0, lo |-> 1],
     [hi |-> SNAPSHOT_INTERVAL \div 65536, lo |-> (SNAPSHOT_INTERVAL % 65536) - 1],
     [hi |-> SNAPSHOT_INTERVAL \div 65536, lo |-> SNAPSHOT_INTERVAL % 65536],
     [hi |-> 32768, lo |-> 0],
     [hi |-> 65535 - (SNAPSHOT_INTERVAL \div 65536), lo |-> 65536 - (SNAPSHOT_INTERVAL % 65536)],
     [hi |-> 65535, lo |-> 65535]}

NoTime == [hi |-> 0, lo |-> 0]

\* the poll at now, since after the last periodic snapshot, left the world w
Polled(now, since, w) ==
    /\ RecoveryReturned("checkPeriodicSnapshot", ValidationResult,
            [ret |-> TRUE, level |-> "NONE", idx |-> -1, w |-> w])
    /\ clock' = [now |-> now,
                 since |-> IF w.created > created THEN NoTime ELSE since,
                 polls |-> clock.polls + 1,
                 taken |-> IF w.created > created THEN clock.taken + 1 ELSE clock.taken,
                 at |-> since,
                 fired |-> w.created > created]

\* checkPeriodicSnapshot(), d after the poll before it
CheckPeriodicSnapshot(d) ==
    /\ clock.polls < MaxPolls
    /\ Polled(u32Plus(clock.now, d), halvesPlus(clock.since, d),
              checkPeriodicSnapshot(World, u32Plus(clock.now, d)))
    /\ UNCHANGED <<cellVars, protVars, bootVars, probe, realtime>>

\* createSnapshot(USER_REQUEST, ...) between two polls
RequestSnapshot ==
    /\ created - clock.taken < MaxRequested
    /\ RecoveryReturned("createSnapshot", ValidationResult,
            [ret |-> TRUE, level |-> "NONE", idx |-> -1,
             w |-> createSnapshot(World, "USER_REQUEST", clock.now)])
    /\ UNCHANGED <<cellVars, protVars, bootVars, valVars>>

PeriodicInit == CellInit /\ ProtInit /\ RecInit /\ BootInit /\ ValInit

PeriodicNext ==
    \/ \E d \in PeriodicSteps : CheckPeriodicSnapshot(d)
    \/ RequestSnapshot

SpecPeriodic == PeriodicInit /\ [][PeriodicNext]_vars

(***************************************************************************)
(* SpecStored: one performBootSequence() over what may be stored on flash, *)
(* a calibration that does not validate included, with every outcome of    *)
(* the mount.                                                              *)
(***************************************************************************)
\* a sound image that holds calibInverted
imageInverted ==
    updateStructureChecksum(
        [CriticalDataProtector EXCEPT !.calibration = setValue("cal", @, calibInverted)])

StoredFiles == {NoFile, FileOf(imageTuned), FileOf(imageInverted), FileOf(imageBadChecksum)}

\* the device as constructed, with any three of these files on flash
StoredInit ==
    /\ CellInit
    /\ power = "on"
    /\ criticalData = CriticalDataProtector
    /\ files \in StoredFiles \X StoredFiles \X StoredFiles
    /\ begun = 0
    /\ txOpen = {}
    /\ txs = [t \in TxIds |-> ClosedTx]
    /\ last = Call("CriticalDataProtector", 0, TRUE)
    /\ crash = NoCrash
    /\ RecInit
    /\ BootInit
    /\ ValInit

StoredNext ==
    \/ \E mount \in Mounts, now \in Millis : BootBegin(mount, now)
    \/ \E now \in Millis, written \in BootWrites, recovers \in BOOLEAN :
            BootCheckIntegrity(now, written, recovers)
    \/ \E now \in Millis, written \in BootWrites, recovers \in BOOLEAN :
            BootLoadConfiguration(now, written, recovers)
    \/ \E now \in Millis, written \in BootWrites, opened \in BOOLEAN, recovers \in BOOLEAN :
            BootValidate(now, written, opened, recovers)

SpecStored == StoredInit /\ [][StoredNext]_vars

(***************************************************************************)
(* SpecSafety: ConfigSafety::validateAndFixCalibration, called again and   *)
(* again on a CalibrationData of any 16-bit values.                        *)
(***************************************************************************)
\* "if (calib.minVal[i] > calib.maxVal[i])": the swap
safetySwap(k) ==
    IF k.minVal > k.maxVal
    THEN [minVal |-> k.maxVal, maxVal |-> k.minVal, fixed |-> TRUE]
    ELSE k

\* "if (calib.maxVal[i] > 4095)"
safetyClamp(k) ==
    IF k.maxVal > 4095 THEN [k EXCEPT !.maxVal = 4095, !.fixed = TRUE] ELSE k

\* "if (calib.minVal[i] == calib.maxVal[i])"
safetySpread(k) ==
    IF k.minVal = k.maxVal THEN [minVal |-> 0, maxVal |-> 4095, fixed |-> TRUE] ELSE k

\* the body of the loop for key i (element i + 1)
validateAndFixCalibrationKey(calib, i) ==
    safetySpread(safetyClamp(safetySwap(
        [minVal |-> calib.minVal[i + 1], maxVal |-> calib.maxVal[i + 1], fixed |-> FALSE])))

\* ret is the returned bool, calib the argument after the call
validateAndFixCalibration(calib) ==
    [ret |-> \E i \in 0..15 : validateAndFixCalibrationKey(calib, i).fixed,
     calib |-> [minVal |-> [j \in 1..NUM_CAL |->
                               validateAndFixCalibrationKey(calib, j - 1).minVal],
                maxVal |-> [j \in 1..NUM_CAL |->
                               validateAndFixCalibrationKey(calib, j - 1).maxVal]]]

MaxFixes == 3

\* uint16_t values offered for minVal[0] and maxVal[0]
SafetyValues == {0, 1, 4094, 4095, 4096, 5000, 65535}

\* [minVal, maxVal] offered for key 15: in order, inverted above the ADC
\* range, equal, in order above the ADC range
SafetyLastKeys ==
    {[minVal |-> 250, maxVal |-> 3750], [minVal |-> 6000, maxVal |-> 5000],
     [minVal |-> 4095, maxVal |-> 4095], [minVal |-> 5000, maxVal |-> 6000]}

SafetyCalibrations ==
    {[calibValid EXCEPT !.minVal[1] = a, !.maxVal[1] = b,
                        !.minVal[NUM_CAL] = k.minVal, !.maxVal[NUM_CAL] = k.maxVal] :
        a \in SafetyValues, b \in SafetyValues, k \in SafetyLastKeys}

\* how many calls were made on probe.calibration
SafetyCalls == IF probe.op = "none" THEN 0 ELSE probe.out.calls

\* the calibration as it was offered
SafetyOffered == IF probe.op = "none" THEN probe.calibration ELSE probe.out.offered

\* validateAndFixCalibration(probe.calibration) gave r
SafetyReturned(r) ==
    /\ probe' = [probe EXCEPT !.op = "validateAndFixCalibration",
                              !.calibration = r.calib,
                              !.out = [ret |-> r.ret, before |-> probe.calibration,
                                       offered |-> SafetyOffered,
                                       calls |-> SafetyCalls + 1]]
    /\ UNCHANGED <<cellVars, protVars, recVars, bootVars, realtime, clock>>

ValidateAndFixCalibration ==
    /\ SafetyCalls < MaxFixes
    /\ SafetyReturned(validateAndFixCalibration(probe.calibration))

SafetyProbeInit == \E k \in SafetyCalibrations : probe = [NoProbe EXCEPT !.calibration = k]

SafetyInit ==
    CellInit /\ ProtInit /\ RecInit /\ BootInit /\ RealtimeInit /\ ClockInit /\ SafetyProbeInit

SafetyNext == ValidateAndFixCalibration

SpecSafety == SafetyInit /\ [][SafetyNext]_vars

(***************************************************************************)
(* Properties of the TripleRedundant<uint32_t> (SpecCell)                  *)
(***************************************************************************)
ValidSlots(c) == {s \in Slots : SlotValid(CellType, c, s)}

\* every slot holds v under a matching checksum
AllSlotsHold(c, v) ==
    \A s \in Slots : SlotValue(c, s) = v /\ SlotValid(CellType, c, s)

\* two slots with matching checksums hold the same bytes
HasMajority(c) ==
    \E s1, s2 \in ValidSlots(c) :
        s1 # s2 /\ memcmp(CellType, SlotValue(c, s1), SlotValue(c, s2)) = 0

\* C8: after setValue(v) and corruption (data or checksum) of at most one
\* slot, getMajorityValue() returns v; with no corruption isCorrupted() is
\* false and getValidCopyCount() is 3.
C8_OneSlotCorrupted ==
    /\ Cardinality(cellHit) <= 1 => getMajorityValue(CellType, cell).value = cellSet
    /\ (cellLast.op = "getMajorityValue" /\ Cardinality(cellHit) <= 1)
            => cellLast.ret = cellSet
    /\ cellHit = {} => /\ ~isCorrupted(CellType, cell)
                       /\ getValidCopyCount(CellType, cell) = 3

\* a read of 0x12345678 from a cell one slot of which no longer verifies
C8_Witness ==
    /\ cellLast.op = "getMajorityValue"
    /\ Cardinality(cellHit) = 1
    /\ Cardinality(ValidSlots(cellLast.before)) = 2
    /\ cellSet = 305419896
    /\ cellLast.ret = 305419896

\* C9: when getMajorityValue() returns a value because two valid slots are
\* equal, the third slot is overwritten on that read: afterwards all three
\* slots hold the returned value with matching checksums, getValidCopyCount()
\* is 3 and isCorrupted() is false.
C9_MajorityRepairsThird ==
    (cellLast.op = "getMajorityValue" /\ HasMajority(cellLast.before))
        => /\ AllSlotsHold(cell, cellLast.ret)
           /\ getValidCopyCount(CellType, cell) = 3
           /\ ~isCorrupted(CellType, cell)

\* C10: with one valid slot and the two others corrupted, getMajorityValue()
\* returns the valid slot's value and repairs the other two: afterwards all
\* three slots equal it with valid checksums.
C10_SingleValidRepairs ==
    \A s \in Slots :
        (cellLast.op = "getMajorityValue" /\ ValidSlots(cellLast.before) = {s})
            => /\ cellLast.ret = SlotValue(cellLast.before, s)
               /\ AllSlotsHold(cell, cellLast.ret)

\* the read found backup1 alone valid, the two others holding different
\* corrupted values, and left three good copies
C10_Witness ==
    /\ cellLast.op = "getMajorityValue"
    /\ ValidSlots(cellLast.before) = {"backup1"}
    /\ cellLast.before.primary # cellLast.before.backup2
    /\ cellLast.before.primary # cellLast.before.backup1
    /\ cellLast.before.backup2 # cellLast.before.backup1
    /\ cellLast.ret = cellLast.before.backup1
    /\ AllSlotsHold(cell, cellLast.ret)

\* C11: when all three slots fail checksum verification, getMajorityValue()
\* returns the default-constructed T and marks no slot valid: isCorrupted()
\* is true and getValidCopyCount() is 0 before and after the read.
C11_AllCorruptedGivesDefault ==
    /\ ValidSlots(cell) = {}
            => /\ getMajorityValue(CellType, cell).value = DefaultOf(CellType)
               /\ getMajorityValue(CellType, cell).self = cell
               /\ isCorrupted(CellType, cell)
               /\ getValidCopyCount(CellType, cell) = 0
    /\ (cellLast.op = "getMajorityValue" /\ ValidSlots(cellLast.before) = {})
            => /\ cellLast.ret = DefaultOf(CellType)
               /\ isCorrupted(CellType, cellLast.before)
               /\ getValidCopyCount(CellType, cellLast.before) = 0
               /\ cell = cellLast.before
               /\ isCorrupted(CellType, cell)
               /\ getValidCopyCount(CellType, cell) = 0

\* a read of a cell set to 0x12345678 whose three checksums no longer match
C11_Witness ==
    /\ cellLast.op = "getMajorityValue"
    /\ cellSet = 305419896
    /\ \A s \in Slots : SlotValue(cellLast.before, s) = 305419896
    /\ ValidSlots(cellLast.before) = {}
    /\ cellLast.ret = DefaultOf(CellType)
    /\ ValidSlots(cell) = {}

\* v is what a read of cell c may return: the content of a slot of c whose
\* stored checksum matches, or T{} when no slot of c verifies
ReadOfVerified(c, v) ==
    \/ \E s \in ValidSlots(c) : v = SlotValue(c, s)
    \/ ValidSlots(c) = {} /\ v = DefaultOf(CellType)

\* C12: in every reachable state of the slots and checksums, what
\* getMajorityValue() returns is the content of a slot whose stored checksum
\* matched during the call, or T{} when no slot is valid; never the content
\* of a slot that failed verification.
C12_ReturnsVerifiedOnly ==
    /\ ReadOfVerified(cell, getMajorityValue(CellType, cell).value)
    /\ cellLast.op = "getMajorityValue" => ReadOfVerified(cellLast.before, cellLast.ret)

\* a read that found the primary slot failing and the two backups verifying
\* with different contents, and returned backup1, not the primary's content
C12_Witness ==
    /\ cellLast.op = "getMajorityValue"
    /\ ValidSlots(cellLast.before) = {"backup1", "backup2"}
    /\ cellLast.before.backup1 # cellLast.before.backup2
    /\ cellLast.before.primary # cellLast.before.backup1
    /\ cellLast.ret = cellLast.before.backup1

(***************************************************************************)
(* Properties of the recovery system (SpecRecovery)                        *)
(***************************************************************************)
\* the last step was a call of attemptAutoRecovery(validation)
Recovered == rlast.op = "attemptAutoRecovery"

\* C18: when every error of the ValidationResult handed to
\* attemptAutoRecovery is marked auto-fixable, the call succeeds at level 1,
\* parameter recovery: neither a snapshot is restored nor the factory
\* configuration.
C18_AllFixableStaysAtLevel1 ==
    (Recovered /\ canAutoFix(rlast.validation))
        => (rlast.ret /\ rlast.level = "PARAMETER_RESET")

\* the location an error names, reset to its default: the factory value of
\* the main configuration, the value of getDefaultBankConfig for a bank
ResetToDefault(g, error) ==
    LET p == error.parameter
        b == error.bank + 1
        i == error.index + 1
    IN  CASE p = "mode" -> [g EXCEPT !.cfg.mode = 0]
          [] p = "sensitivity" -> [g EXCEPT !.cfg.sensitivity = 1]
          [] p = "brightness" -> [g EXCEPT !.cfg.brightness = 6]
          [] p = "palette" -> [g EXCEPT !.cfg.palette = 0]
          [] p = "midi_trs" -> [g EXCEPT !.cfg.midi_trs = 0]
          [] p = "trs_type" -> [g EXCEPT !.cfg.trs_type = 0]
          [] p = "passthrough" -> [g EXCEPT !.cfg.passthrough = 0]
          [] p = "midi_ble" -> [g EXCEPT !.cfg.midi_ble = 0]
          [] p = "custom_scale1" -> [g EXCEPT !.cfg.custom_scale1[i] = i - 1]
          [] p = "custom_scale2" -> [g EXCEPT !.cfg.custom_scale2[i] = i - 1]
          [] p = "channel" -> [g EXCEPT !.kb_cfg[b].channel = 1]
          [] p = "scale" -> [g EXCEPT !.kb_cfg[b].scale = 0]
          [] p = "base_octave" -> [g EXCEPT !.kb_cfg[b].base_octave = 2]
          [] p = "base_note" -> [g EXCEPT !.kb_cfg[b].base_note = 0]
          [] p = "velocity_curve" -> [g EXCEPT !.kb_cfg[b].velocity_curve = 1]
          [] p = "aftertouch_curve" -> [g EXCEPT !.kb_cfg[b].aftertouch_curve = 1]
          [] p = "flip_x" -> [g EXCEPT !.kb_cfg[b].flip_x = 0]
          [] p = "flip_y" -> [g EXCEPT !.kb_cfg[b].flip_y = 0]
          [] p = "koala_mode" -> [g EXCEPT !.kb_cfg[b].koala_mode = 0]
          [] p = "cc_channel" -> [g EXCEPT !.cc_cfg[b].channel[i] = 1]
          [] p = "cc_id" -> [g EXCEPT !.cc_cfg[b].id[i] = 13 + (i - 1)]
          [] p = "calibration_max" -> [g EXCEPT !.calibration_data.maxVal[i] = ADC_MAX]
          [] OTHER -> g

\* g with every location named by an auto-fixable error among errors[i..]
\* reset to its default
RECURSIVE ResetNamed(_, _, _)
ResetNamed(g, errors, i) ==
    IF i > Len(errors) THEN g
    ELSE ResetNamed(IF errors[i].isAutoFixable THEN ResetToDefault(g, errors[i]) ELSE g,
                    errors, i + 1)

\* the settings of g: everything but the dirty flag of the main configuration
Settings(g) == [g EXCEPT !.cfg.hasChanged = FALSE]

\* C19: the parameter recovery of an attemptAutoRecovery(validation) call
\* leaves the live configuration as it was before the call except for the
\* locations named by the auto-fixable errors, which hold their defaults
\* (the dirty flag of the main configuration set aside).
C19_ParameterRecoveryResetsNamed ==
    Recovered
        => Settings(tryParameterRecovery(rlast.before, rlast.validation).w.g)
           = Settings(ResetNamed(rlast.before.g, rlast.validation.errors, 1))

\* the slots of the ring, as it was when the call began, whose snapshot
\* passes the checksum and the re-validation
UsableSlots == {i \in 0..(MAX_SNAPSHOTS - 1) : snapshotUsable(rlast.before.rs.snapshots[i + 1])}

\* slot i holds the most recently created of the usable snapshots
NewestUsable(i) ==
    /\ i \in UsableSlots
    /\ \A j \in UsableSlots :
          rlast.before.rs.snapshots[j + 1].born <= rlast.before.rs.snapshots[i + 1].born

\* C20: when attemptAutoRecovery gets to snapshot recovery (its parameter
\* recovery gave false), the snapshot applied is the most recently created
\* snapshot of the ring that passes checksum and re-validation, and one is
\* applied whenever the ring holds such a snapshot.
C20_NewestUsableSnapshotApplied ==
    (Recovered /\ rlast.level # "PARAMETER_RESET")
        => /\ rlast.level = "RECOVERY_SNAPSHOT" => NewestUsable(rlast.idx)
           /\ UsableSlots # {} => rlast.level = "RECOVERY_SNAPSHOT"

\* the snapshot the last createSnapshot(reason, description) call of the
\* recovery system w stored: the slot below the cursor
LatestSnapshot(w) == w.rs.snapshots[snapshotSlot(w, 0) + 1]

\* the object w has taken a snapshot and no later object has
SnapshotTaken(w) == w.created > 0 /\ LatestSnapshot(w).born = w.created

\* the last step was attemptAutoRecovery(validation), called with the errors
\* a validator found in the live data, on an object that had taken a snapshot
RecoveredAfterSnapshot ==
    Recovered /\ SnapshotTaken(rlast.before) /\ ~rlast.validation.isValid

\* the configuration c with its dirty flag set aside
Stored(c) == [c EXCEPT !.hasChanged = FALSE]

\* C21 as stated: createSnapshot(reason, description), then the live data
\* is corrupted, then attemptAutoRecovery: the live configuration and
\* calibration are the values stored in that snapshot (the dirty flag of
\* the configuration, which applyConfiguration sets, is not compared).
C21_SnapshotRoundTrip ==
    RecoveredAfterSnapshot
        => /\ Stored(globals.cfg) = Stored(LatestSnapshot(rlast.before).config)
           /\ globals.calibration_data = LatestSnapshot(rlast.before).calibration

\* C21 amended: when the snapshot passes its checksum and the re-validation
\* and the parameter recovery of the call did not succeed, the call restores
\* that snapshot: the live calibration equals the stored one, the live
\* configuration equals the stored one with hasChanged set.
C21_UsableSnapshotRestored ==
    (RecoveredAfterSnapshot /\ snapshotUsable(LatestSnapshot(rlast.before))
       /\ rlast.level # "PARAMETER_RESET")
        => /\ rlast.ret /\ rlast.level = "RECOVERY_SNAPSHOT"
           /\ globals.cfg = [LatestSnapshot(rlast.before).config EXCEPT !.hasChanged = TRUE]
           /\ globals.calibration_data = LatestSnapshot(rlast.before).calibration

\* a snapshot was restored over a live configuration that differed from it
C21_Witness ==
    /\ RecoveredAfterSnapshot
    /\ snapshotUsable(LatestSnapshot(rlast.before))
    /\ rlast.level = "RECOVERY_SNAPSHOT"
    /\ Stored(rlast.before.g.cfg) # Stored(LatestSnapshot(rlast.before).config)
    /\ Stored(globals.cfg) = Stored(LatestSnapshot(rlast.before).config)

(***************************************************************************)
(* Properties of the snapshot ring (SpecRing)                              *)
(***************************************************************************)
\* the snapshots the ring of the object holds, each named by the number of
\* the createSnapshot call that made it
RingBorn ==
    {recoverySystem.snapshots[i].born : i \in 1..MAX_SNAPSHOTS} \ {0}

\* the min(created, MAX_SNAPSHOTS) most recently created snapshots
NewestBorn == {b \in 1..created : b > created - MAX_SNAPSHOTS}

\* the object was brought up by initialize(), or it is the first object and
\* no snapshot file existed when it was constructed
RingInUse ==
    \/ rlast.op = "initialize"
    \/ rlast.op = "createSnapshot" /\ rlast.restarts = 0

RingBounded ==
    /\ recoverySystem.snapshotCount <= MAX_SNAPSHOTS
    /\ recoverySystem.currentSnapshotIndex \in 0..(MAX_SNAPSHOTS - 1)

\* C22: after any sequence of createSnapshot and initialize operations the
\* ring holds at most MAX_SNAPSHOTS snapshots, the cursor is in 0..4, and
\* the ring contains the min(n, 5) most recently created snapshots.
C22_RingKeepsNewest ==
    /\ RingBounded
    /\ RingInUse => RingBorn = NewestBorn

\* the same within the life of the first object
RingKeepsNewestFirstLife ==
    (RingInUse /\ rlast.restarts = 0) => RingBorn = NewestBorn

RingWrapped == RingInUse /\ rlast.restarts = 0 /\ created = MaxRing

(***************************************************************************)
(* Properties of the configuration validator (SpecValidate)                *)
(***************************************************************************)
\* C23: validateConfiguration, then autoFixConfiguration, then
\* validateConfiguration of the fixed value: when the first result has no
\* error that is marked not auto-fixable, the second result has no errors.
C23_AutoFixFixedPoint ==
    (probe.op = "validateFixValidate"
       /\ (probe.out.first.errors = <<>> \/ canAutoFix(probe.out.first)))
        => probe.out.second.errors = <<>>

\* a custom scale table that is defined (its first note is not 0xFF) and
\* holds a note outside [-24, 24]
ScaleOutOfRange(scale) ==
    scale[1] # -1 /\ \E i \in 1..SCALE_LEN : ~isValidScaleNote(scale[i])

\* a field of the configuration c is out of range
FieldOutOfRange(c) ==
    \/ c.mode > 4 \/ c.sensitivity > 4 \/ c.brightness > 15 \/ c.palette >= BANK_AMT
    \/ c.midi_trs > 1 \/ c.trs_type > 1 \/ c.passthrough > 1 \/ c.midi_ble > 1
    \/ ScaleOutOfRange(c.custom_scale1) \/ ScaleOutOfRange(c.custom_scale2)

\* C24: at every validation level above BASIC validateConfiguration
\* reports a configuration with a field out of range as invalid, with at
\* least one error.
C24_OutOfRangeReported ==
    (probe.op = "validateConfiguration" /\ probe.level # "BASIC"
       /\ FieldOutOfRange(probe.config))
        => (~probe.out.isValid /\ probe.out.errors # <<>>)

(***************************************************************************)
(* Properties of the RealtimeValidator (SpecRealtime, SpecFast)            *)
(***************************************************************************)
\* C26: after any sequence of accepted pressure-threshold and
\* aftertouch-threshold writes, each followed by updateDynamicConstraints,
\* the pressure threshold is strictly below the aftertouch threshold, in the
\* values the validator recorded and in the values the writes carried
C26_ThresholdsOrdered ==
    /\ realtime.validator.currentPressureThreshold
           < realtime.validator.currentAftertouchThreshold
    /\ realtime.pressureThreshold < realtime.aftertouchThreshold

\* the validator records the value of every accepted write
C26_ValidatorFollowsWrites ==
    /\ realtime.validator.currentPressureThreshold = realtime.pressureThreshold
    /\ realtime.validator.currentAftertouchThreshold = realtime.aftertouchThreshold

\* the range quickValidate is said to check for parameterId
FastRange(parameterId) ==
    IF parameterId \in {PARAM_KB_CHANNEL, PARAM_CC_CHANNEL} THEN 1..16
    ELSE IF parameterId = PARAM_KB_SCALE THEN 0..15
    ELSE IF parameterId = PARAM_KB_OCTAVE THEN 0..7
    ELSE IF parameterId = PARAM_CC_ID THEN 0..127
    ELSE IF parameterId \in {PARAM_MODE, PARAM_SENSITIVITY} THEN 0..4
    ELSE 0..15

\* C27: for each parameter FastValidator handles and every value,
\* quickValidate(id, value) is true exactly when the value lies in the range
\* of the parameter
C27_QuickValidateRange ==
    probe.op = "quickValidate" =>
        (probe.out <=> probe.value \in FastRange(probe.parameterId))

\* what quickValidate does: the parameters below 0x100 are checked against
\* their range, PARAM_KB_SCALE, PARAM_KB_OCTAVE and PARAM_CC_ID against the
\* range of the parameter with the same low byte, the channels not at all
QuickValidateByLowByte ==
    probe.op = "quickValidate" =>
        (probe.out <=>
            \/ probe.parameterId % 256 = 0
            \/ probe.parameterId % 256 \in {PARAM_MODE, PARAM_SENSITIVITY} /\ probe.value <= 4
            \/ probe.parameterId % 256 = PARAM_BRIGHTNESS /\ probe.value <= 15)

(***************************************************************************)
(* Properties of factoryReset (SpecReset)                                  *)
(***************************************************************************)
\* factoryReset(preserveCalibration) installs the factory configuration,
\* keeps the device serial, and keeps the calibration or installs the factory
\* calibration
FactoryResetEffect(preserveCalibration) ==
    FactoryReset(preserveCalibration) =>
        /\ getConfiguration(criticalData').value = getFactoryConfiguration
        /\ getDeviceSerial(criticalData').value = getDeviceSerial(criticalData).value
        /\ getCalibration(criticalData').value =
               IF preserveCalibration THEN getCalibration(criticalData).value
               ELSE getFactoryCalibration
        /\ verifyIntegrity(criticalData')

\* C28: factoryReset(true) sets the configuration to the factory values and
\* leaves the calibration and the device serial unchanged; factoryReset(false)
\* also resets the calibration to the factory values, 0..4095 for every key
C28_FactoryResetFrame ==
    /\ [][\A preserveCalibration \in BOOLEAN : FactoryResetEffect(preserveCalibration)]_vars
    /\ \A i \in 1..NUM_CAL :
           getFactoryCalibration.minVal[i] = 0 /\ getFactoryCalibration.maxVal[i] = 4095

\* a factory reset that kept a calibration and a serial that are not the
\* factory ones
C28_Witness ==
    /\ last.op = "factoryReset"
    /\ last.ret
    /\ getCalibration(criticalData).value = calibValid
    /\ getDeviceSerial(criticalData).value = 7
    /\ getConfiguration(criticalData).value = getFactoryConfiguration

(***************************************************************************)
(* Properties of loadCriticalData (SpecLoad)                               *)
(***************************************************************************)
FileReadable(i) == readFromFile(files[i]).ret

\* file i has the magic and a structure checksum that is the one of its own
\* contents
FileSound(i) ==
    /\ FileReadable(i)
    /\ files[i].data.magic = MAGIC
    /\ verifyStructureChecksum(files[i].data)

\* C29: loadCriticalData never adopts the contents of a file whose magic is
\* wrong or whose structure checksum does not match the contents of that
\* file: the protector never starts with the image of such a file
C29_UnsoundFileNotAdopted ==
    [][\A written \in WritePatterns :
          Boot(TRUE, written) =>
              \A i \in 1..3 :
                  FileReadable(i) /\ ~FileSound(i) => criticalData' # files[i].data]_vars

\* the file with a wrong magic is never adopted
BadMagicNotAdopted ==
    [][\A written \in WritePatterns :
          Boot(TRUE, written) =>
              \A i \in 1..3 :
                  FileReadable(i) /\ files[i].data.magic # MAGIC
                      => criticalData' # files[i].data]_vars

\* file i is counted valid by loadCriticalData on a new protector
FileCounted(i) ==
    /\ FileReadable(i)
    /\ files[i].data.magic = MAGIC
    /\ i = 1 => verifyStructureChecksum(CriticalDataProtector)

\* load is what loadCriticalData gave for the files: two counted files with
\* the same bytes win, else one counted file, else failure
LoadVotes(load) ==
    /\ \A i, j \in 1..3 :
          i < j /\ FileCounted(i) /\ FileCounted(j) /\ sameImage(files[i].data, files[j].data)
              => load.ret /\ load.criticalData = files[i].data
    /\ load.ret => \E i \in 1..3 : FileCounted(i) /\ load.criticalData = files[i].data
    /\ ~load.ret <=> \A i \in 1..3 : ~FileCounted(i)

\* initialize() with the result of loadCriticalData: what was loaded is what
\* the protector starts with, and after a failure the factory defaults are
\* in the protector and written to the three files
LoadInstalled(load, written) ==
    /\ load.ret /\ verifyIntegrity(load.criticalData) =>
          criticalData' = load.criticalData /\ files' = files
    /\ ~load.ret =>
          /\ criticalData' = CriticalDataProtector
          /\ getConfiguration(criticalData').value = getFactoryConfiguration
          /\ getCalibration(criticalData').value = getFactoryCalibration
          /\ \A i \in 1..3 :
                written[i] = SIZEOF_CRITICAL_DATA => files'[i] = FileOf(CriticalDataProtector)
          /\ last'.ret <=> \A i \in 1..3 : written[i] = SIZEOF_CRITICAL_DATA

LoadVotesAndInstalls(load, written) == LoadVotes(load) /\ LoadInstalled(load, written)

CalibrationInverted(k) == \E i \in 1..NUM_CAL : k.minVal[i] > k.maxVal[i]

CalibrationInRange(k) ==
    \A i \in 1..NUM_CAL : k.minVal[i] <= k.maxVal[i] /\ k.maxVal[i] <= ADC_MAX

\* result reports key i (0-based in the code) as inverted, not auto-fixable
InvertedReported(result, k) ==
    \A i \in 1..NUM_CAL :
        k.minVal[i] > k.maxVal[i] =>
            \E e \in 1..Len(result.errors) :
                /\ result.errors[e].parameter = "calibration"
                /\ result.errors[e].index = i - 1
                /\ ~result.errors[e].isAutoFixable

\* updateCalibration(k) on transaction t reports an inverted k as an error
\* without auto-fix and leaves the protector as it was
InvertedRejected(t, k) ==
    CalibrationUpdate(t, k) =>
        /\ ~probe'.out.isValid
        /\ InvertedReported(probe'.out, k)
        /\ ~canAutoFix(probe'.out)
        /\ ~last'.ret
        /\ getCalibration(criticalData').value = getCalibration(criticalData).value
        /\ txs'[t] = txs[t]

\* C25: a calibration with minVal[i] > maxVal[i] for some key is an error
\* that is not auto-fixable, updateCalibration rejects it, and after any
\* sequence of transaction operations from the factory calibration the
\* stored calibration has minVal[i] <= maxVal[i] <= 4095 for every key
C25_CalibrationStaysOrdered ==
    /\ [](CalibrationInRange(getCalibration(criticalData).value))
    /\ [][\A t \in TxIds, k \in OfferedCalibrations :
            CalibrationInverted(k) => InvertedRejected(t, k)]_vars

\* an inverted calibration was refused while a calibration other than the
\* factory one, accepted and committed before, is stored
C25_Witness ==
    /\ last.op = "updateCalibration"
    /\ ~last.ret
    /\ probe.op = "updateCalibration"
    /\ CalibrationInverted(probe.calibration)
    /\ getCalibration(criticalData).value = calibValid
    /\ files[1] # NoFile

(***************************************************************************)
(* Properties of the boot sequence (SpecBoot)                              *)
(***************************************************************************)
\* performBootSequence() has returned and nothing has run since
BootReturned == boot.pc \in BootResults

BootReady == boot.pc \in {"SUCCESS", "RECOVERED"}

\* the boot found the statistics file of the earlier boots with a failure
\* counter of at least MAX_BOOT_FAILURES
BootFoundSaturated ==
    /\ boot.mount = "mounted"
    /\ boot.before.exists
    /\ boot.before.failureCount >= MAX_BOOT_FAILURES

\* C13: with a persisted failureCount of at least MAX_BOOT_FAILURES
\* performBootSequence() returns SAFE_MODE_REQUIRED without entering the
\* integrity, load or validation stage, in state SAFE_MODE with
\* isInSafeMode() true, and cfg is the hard-coded safe-mode configuration:
\* mode 4, brightness 3, sensitivity 1, MIDI TRS and BLE off, all else as
\* ConfigurationData{} with version 102.
C13_SafeModeAfterFiveFailures ==
    (BootReturned /\ BootFoundSaturated) =>
        /\ boot.pc = "SAFE_MODE_REQUIRED"
        /\ boot.stages = {}
        /\ bootManager.status.state = "SAFE_MODE"
        /\ bootManager.inSafeMode
        /\ globals.cfg.mode = 4
        /\ globals.cfg.brightness = 3
        /\ globals.cfg.sensitivity = 1
        /\ globals.cfg.midi_trs = 0
        /\ globals.cfg.midi_ble = 0
        /\ globals.cfg = [ConfigurationData EXCEPT !.version = 102, !.mode = 4,
                                                   !.sensitivity = 1, !.brightness = 3,
                                                   !.midi_trs = 0, !.midi_ble = 0]

C13_Witness ==
    /\ BootReturned
    /\ BootFoundSaturated
    /\ boot.pc = "SAFE_MODE_REQUIRED"
    /\ boot.calls = MAX_BOOT_FAILURES + 1

\* C14: a boot in which the integrity check or the configuration load
\* failed leaves the persisted failureCount one higher than the boot found
\* it, whatever it returns (the file system mounted at once and the
\* statistics file could be opened wherever the boot wrote it).
C14_FailedBootCounted ==
    (BootReturned /\ boot.failed /\ boot.mount = "mounted" /\ boot.opened) =>
        /\ bootStatsFile.exists
        /\ bootStatsFile.failureCount = boot.before.failureCount + 1

\* C15: when performBootSequence() returns SUCCESS or RECOVERED the
\* persisted statistics have failureCount 0 and the lastSuccessfulBoot of
\* this boot (the statistics file could be opened wherever the boot wrote
\* it).
C15_ReadyResetsPersistedFailures ==
    (BootReady /\ boot.opened) =>
        /\ bootStatsFile.exists
        /\ bootStatsFile.failureCount = 0
        /\ bootStatsFile.lastSuccessfulBoot = bootManager.lastSuccessfulBoot

BootConsistent ==
    BootReturned =>
        /\ boot.pc \in {"SUCCESS", "RECOVERED"} =>
              bootManager.status.state = "READY" /\ ~bootManager.inSafeMode
        /\ boot.pc = "SAFE_MODE_REQUIRED" =>
              bootManager.status.state = "SAFE_MODE" /\ bootManager.inSafeMode
        /\ bootManager.status.state \notin
              {"CHECKING_INTEGRITY", "LOADING_CONFIG", "VALIDATING_CONFIG", "RECOVERING"}

BootContext ==
    [variant |-> "T16", firmwareVersion |-> globals.cfg.version, strictMode |-> TRUE,
     level |-> "COMPREHENSIVE"]

\* C16: performBootSequence() does not return SUCCESS or RECOVERED while
\* the main configuration, the calibration or the keyboard or CC data of a
\* bank fails validation.
C16_ReadyMeansValid ==
    BootReady =>
        /\ validateConfiguration(globals.cfg, BootContext).isValid
        /\ validateCalibrationData(globals.calibration_data, BootContext).isValid
        /\ \A b \in 1..BANK_AMT :
              /\ validateKeyModeData(globals.kb_cfg[b], b - 1, BootContext).isValid
              /\ validateControlChangeData(globals.cc_cfg[b], b - 1, BootContext).isValid

(***************************************************************************)
(* Properties of the transactions (Spec, SpecOverlap, SpecCrash)           *)
(***************************************************************************)
UpdateOps == {"updateConfiguration", "updateCalibration"}

\* the ranges validateConfiguration tests and autoFixConfiguration clamps to
ConfigInRange(c) ==
    /\ c.mode <= 4 /\ c.sensitivity <= 4 /\ c.brightness <= 15
    /\ c.palette < BANK_AMT /\ c.midi_trs <= 1 /\ c.trs_type <= 1
    /\ c.passthrough <= 1 /\ c.midi_ble <= 1

\* transaction t is destroyed without commit() and, afterwards, the getters
\* return what t captured when it was constructed
RestoredBy(t) ==
    (DestroyTransaction(t) /\ ~txs[t].committed)
        => /\ getConfiguration(criticalData').value = txs[t].originalConfig
           /\ getCalibration(criticalData').value = txs[t].originalCalibration

\* C1: destroying a transaction without commit(), after any sequence of
\* successful updates, leaves getConfiguration() and getCalibration() equal
\* to the values captured when the transaction was constructed.
C1_RollbackRestores == [][\A t \in TxIds : RestoredBy(t)]_vars

\* C2: an update with an unfixable candidate returns failure and changes no
\* state (stored configuration, stored calibration, modified flags); after
\* the transaction is then destroyed without commit(), getConfiguration()
\* equals the pre-transaction value.
C2_RejectedChangesNothing ==
    [][/\ (last'.op \in UpdateOps /\ ~last'.ret)
            => (criticalData' = criticalData /\ txs' = txs /\ files' = files)
       /\ \A t \in TxIds :
            (last.op \in UpdateOps /\ ~last.ret /\ last.tx = t
                /\ DestroyTransaction(t) /\ ~txs[t].committed)
            => getConfiguration(criticalData').value = txs[t].originalConfig]_vars

\* C3: an updateConfiguration that returns success has stored an in-range
\* value (the fixed one when the candidate was out of range) and marked the
\* transaction modified: no accepted configuration has an out-of-range field.
C3_AcceptedInRange ==
    (last.op = "updateConfiguration" /\ last.ret)
        => /\ ConfigInRange(getConfiguration(criticalData).value)
           /\ txs[last.tx].configModified

\* the load fresh succeeded and its getters return what those of data return
LoadGives(fresh, data) ==
    /\ fresh.ret
    /\ getConfiguration(fresh.criticalData).value = getConfiguration(data).value
    /\ getCalibration(fresh.criticalData).value = getCalibration(data).value

\* C4: after a commit() whose three writes succeed, the three files hold
\* identical images of the in-memory aggregate, the structure checksum
\* matches, the destructor of the committed transaction rolls nothing back,
\* and a fresh protector that loads the files gets the committed
\* configuration and calibration.
C4_CommitPersists ==
    (last.op = "commit" /\ last.ret)
        => /\ \A i \in 1..3 : /\ files[i].exists
                               /\ files[i].size = SIZEOF_CRITICAL_DATA
                               /\ sameImage(files[i].data, criticalData)
           /\ verifyStructureChecksum(criticalData)
           /\ txs[last.tx].committed
           /\ destroyTransaction(criticalData, txs[last.tx]) = criticalData
           /\ LoadGives(loadCriticalData(CriticalDataProtector, files), criticalData)

\* a commit, all writes good, of a transaction that changed both the
\* configuration and the calibration
C4_Witness ==
    /\ last.op = "commit" /\ last.ret
    /\ txs[last.tx].configModified /\ txs[last.tx].calibrationModified
    /\ getConfiguration(criticalData).value = configBright
    /\ getCalibration(criticalData).value = calibValid
    /\ getConfiguration(loadCriticalData(CriticalDataProtector, files).criticalData).value
            = configBright

\* the load next succeeded with the aggregate of before the interrupted
\* commit or with the one the commit was writing
PreOrPost(next) ==
    /\ next.ret
    /\ \/ sameImage(next.criticalData, crash.pre)
       \/ sameImage(next.criticalData, crash.post)

\* C5: when power is lost during the persistCriticalData of a commit, the
\* next loadCriticalData yields the complete aggregate of before the commit
\* or the complete aggregate the commit was writing.
C5_PowerLossAtomic ==
    (power = "off" /\ crash.active /\ crash.preOk)
        => PreOrPost(loadCriticalData(CriticalDataProtector, files))

\* C6: updateConfiguration, updateCalibration and rollback never write the
\* backing files; within a transaction the files change only in commit().
C6_OnlyCommitWrites ==
    [][/\ (last'.op \in UpdateOps \cup {"rollback"}) => files' = files
       /\ files' # files => last'.op = "commit"]_vars

\* a rollback that changed the aggregate in memory while the files keep the
\* image of an earlier commit
C6_Witness ==
    /\ last.op = "rollback"
    /\ \A i \in 1..3 : files[i].exists /\ files[i].size = SIZEOF_CRITICAL_DATA
    /\ ~sameImage(files[1].data, criticalData)
    /\ criticalData.configuration.generationCounter
            > files[1].data.configuration.generationCounter + 1

\* C7: while one transaction is open a second beginTransaction() is refused:
\* two transactions are never open at the same time.
C7_OneTransactionOpen == Cardinality(txOpen) <= 1

(***************************************************************************)
(* Properties of a boot from a cell without valid copy (SpecDeadCell)      *)
(***************************************************************************)
\* a cell of data has zero valid copies
HasDeadCell(data) ==
    \/ getValidCopyCount("cfg", data.configuration) = 0
    \/ getValidCopyCount("cal", data.calibration) = 0
    \/ getValidCopyCount("u32", data.deviceSerial) = 0
    \/ getValidCopyCount("u8", data.firmwareVersion) = 0

\* the integrity stage runs on files from which loadCriticalData takes data
\* with a dead cell
DeadCellStage(load) ==
    /\ boot.pc = "CHECKING_INTEGRITY"
    /\ boot'.pc # "CHECKING_INTEGRITY"
    /\ load.ret
    /\ HasDeadCell(load.criticalData)

\* repairCorruption() and the stage do not report success: the stage
\* failed and the manager went to recovery (or, with that failing, to the
\* safe mode)
DeadCellEscalated(load) ==
    /\ ~repairCorruption(load.criticalData).ret
    /\ boot'.failed
    /\ bootManager'.status.state \in {"RECOVERING", "SAFE_MODE"}

DeadCellSurfaced(load) == DeadCellStage(load) => DeadCellEscalated(load)

\* C31: when a cell has zero valid copies, repairCorruption() and the boot
\* integrity stage do not report success and go on with the
\* default-constructed value: they escalate to recovery
C31_DeadCellEscalates ==
    [][DeadCellSurfaced(loadCriticalData(criticalData, files))]_vars

\* what happens instead: the stage succeeds and the protector holds the
\* default-constructed value in the cell that was dead
DeadCellDefaulted(load) ==
    DeadCellStage(load) =>
        /\ repairCorruption(load.criticalData).ret
        /\ ~boot'.failed
        /\ boot'.pc = "LOADING_CONFIG"
        /\ bootManager'.status.integrityCheck
        /\ verifyIntegrity(criticalData')
        /\ getValidCopyCount("cfg", load.criticalData.configuration) = 0
               => getConfiguration(criticalData').value = ConfigurationData
        /\ getValidCopyCount("cal", load.criticalData.calibration) = 0
               => getCalibration(criticalData').value = CalibrationData

DeadCellGoesOnWithDefault ==
    [][DeadCellDefaulted(loadCriticalData(criticalData, files))]_vars

(***************************************************************************)
(* The levels of attemptAutoRecovery and its statistics (SpecRecovery)     *)
(***************************************************************************)
\* the world attemptAutoRecovery was called on, after its first two
\* statements
RecoveryCounted ==
    [rlast.before EXCEPT
        !.rs.stats.totalRecoveries = @ + 1,
        !.rs.stats.lastRecoveryTimestamp = recoverySystem.stats.lastRecoveryTimestamp]

\* the call returned true at level, with the globals as w has them: no
\* later level touched them
StoppedAt(level, w) ==
    /\ rlast.ret
    /\ rlast.level = level
    /\ recoverySystem.stats.lastRecoveryLevel = level
    /\ globals = w.g

\* f is what the factory recovery gave, run after the two other levels failed
OrderAfterFactory(f) ==
    IF f.ret THEN StoppedAt("CALIBRATION_PRESERVE", f.w) ELSE ~rlast.ret

\* s is what the snapshot recovery gave, run after the parameter recovery
\* failed
OrderAfterSnapshot(s) ==
    IF s.ret THEN StoppedAt("RECOVERY_SNAPSHOT", s.w)
    ELSE OrderAfterFactory(tryFactoryRecovery(s.w, TRUE))

\* p is what the parameter recovery gave
OrderAfterParameter(p) ==
    IF p.ret THEN StoppedAt("PARAMETER_RESET", p.w)
    ELSE OrderAfterSnapshot(trySnapshotRecovery(p.w))

\* C32: within attemptAutoRecovery(validation) the levels run in the order
\* parameter, snapshot, factory and stop at the first success; the recorded
\* lastRecoveryLevel is the level that succeeded
C32_LevelsInOrder ==
    Recovered => OrderAfterParameter(tryParameterRecovery(RecoveryCounted, rlast.validation))

\* the parameter recovery failed and a snapshot was applied
C32_Witness ==
    /\ Recovered
    /\ rlast.ret
    /\ rlast.level = "RECOVERY_SNAPSHOT"
    /\ ~tryParameterRecovery(RecoveryCounted, rlast.validation).ret
    /\ globals # rlast.before.g

\* the factory recovery ran after the two other levels failed
FactoryLevelReached ==
    /\ Recovered
    /\ rlast.level = "CALIBRATION_PRESERVE"

\* C33: from zeroed statistics every attemptAutoRecovery(validation) adds
\* one to totalRecoveries and one to exactly one of successfulRecoveries and
\* failedRecoveries, so totalRecoveries = successfulRecoveries +
\* failedRecoveries after any sequence of attempts
C33_StatisticsAddUp ==
    /\ recoverySystem.stats.totalRecoveries
           = recoverySystem.stats.successfulRecoveries + recoverySystem.stats.failedRecoveries
    /\ recoveryStatsFile.exists =>
           recoveryStatsFile.data.totalRecoveries
               = recoveryStatsFile.data.successfulRecoveries
                     + recoveryStatsFile.data.failedRecoveries
    /\ Recovered =>
           /\ recoverySystem.stats.totalRecoveries
                  = rlast.before.rs.stats.totalRecoveries + 1
           /\ recoverySystem.stats.successfulRecoveries
                  = rlast.before.rs.stats.successfulRecoveries + (IF rlast.ret THEN 1 ELSE 0)
           /\ recoverySystem.stats.failedRecoveries
                  = rlast.before.rs.stats.failedRecoveries + (IF rlast.ret THEN 0 ELSE 1)

\* two attempts were counted, the second after a restart that read the
\* statistics back
C33_Witness ==
    /\ Recovered
    /\ recoverySystem.stats.totalRecoveries = 2
    /\ rlast.restarts = 1

(***************************************************************************)
(* The periodic snapshot (SpecPeriodic)                                    *)
(***************************************************************************)
\* the last poll created a snapshot: it is the newest of the ring, a
\* periodic one, stamped with millis()
PeriodicSnapshotTaken ==
    LET newest == recoverySystem.snapshots[
                      ((recoverySystem.currentSnapshotIndex + MAX_SNAPSHOTS - 1)
                           % MAX_SNAPSHOTS) + 1]
    IN  /\ newest.reason = "PERIODIC_BACKUP"
        /\ newest.timestamp = clock.now
        /\ recoverySystem.lastPeriodicSnapshot = clock.now

\* C34: however often checkPeriodicSnapshot() is polled, a poll creates a
\* snapshot only when SNAPSHOT_INTERVAL or more has passed since the periodic
\* snapshot before it, and a poll at which the time since the last periodic
\* snapshot, as a 32-bit number of milliseconds, is SNAPSHOT_INTERVAL or
\* more creates one.
C34_PeriodicSnapshotPacing ==
    rlast.op = "checkPeriodicSnapshot" =>
        /\ clock.fired => halvesAtLeast(clock.at, SNAPSHOT_INTERVAL) /\ PeriodicSnapshotTaken
        /\ halvesAtLeast(u32Wrap(clock.at), SNAPSHOT_INTERVAL) => clock.fired

\* a second periodic snapshot, taken after millis() went round
C34_Witness ==
    /\ rlast.op = "checkPeriodicSnapshot"
    /\ clock.fired
    /\ clock.taken >= 2
    /\ clock.now >= 0
    /\ clock.now < SNAPSHOT_INTERVAL

\* a poll 2^32 ms or more after the last periodic snapshot sees only the low
\* 32 bits of the time that passed
PollAfterFullRound ==
    /\ rlast.op = "checkPeriodicSnapshot"
    /\ clock.at.hi >= 65536
    /\ ~halvesAtLeast(u32Wrap(clock.at), SNAPSHOT_INTERVAL)
    /\ ~clock.fired

(***************************************************************************)
(* The results of performBootSequence() and its recovery attempts (SpecBoot) *)
(***************************************************************************)
\* LittleFS could not be mounted, before or after the format
MountFailed == boot.mount \in {"erased", "failed"}

\* a check of a stage gave false in this performBootSequence()
StageFailed == boot.failed \/ boot.invalid

\* C35: performBootSequence() returns CRITICAL_FAILURE exactly when
\* initializeFilesystem() fails, that is when LittleFS cannot be mounted
\* before or after the format; a call in which a later stage fails returns
\* SAFE_MODE_REQUIRED or RECOVERED.
C35_CriticalFailureIffMountFails ==
    BootReturned =>
        /\ boot.pc = "CRITICAL_FAILURE" <=> MountFailed
        /\ (StageFailed /\ ~MountFailed) => boot.pc \in {"SAFE_MODE_REQUIRED", "RECOVERED"}

\* the mount failed after the format had succeeded
C35_Witness ==
    /\ boot.pc = "CRITICAL_FAILURE"
    /\ boot.mount = "erased"
    /\ ~bootManager.status.integrityCheck

\* the integrity check failed and the boot was recovered
IntegrityRecovered == BootReturned /\ boot.failed /\ boot.pc = "RECOVERED"

\* the validation failed and the boot ended in safe mode
InvalidEndsInSafeMode == BootReturned /\ boot.invalid /\ boot.pc = "SAFE_MODE_REQUIRED"

RecoveryAttemptedOnce == boot.attempts <= 1

(***************************************************************************)
(* commit() when a write fails (Spec)                                      *)
(***************************************************************************)
\* the last call was a commit() in which a write of a file came back short
CommitWriteFailed == last.op = "commit" /\ ~last.ret

\* C37: after a commit() in which one or more of the three writes failed the
\* transaction is not marked committed, so that its destructor rolls the
\* protector back to what is stored.
C37_FailedCommitNotCommitted ==
    CommitWriteFailed => ~txs[last.tx].committed

\* what the caller has after commit() is the same whether the writes
\* succeeded or not: the transaction is marked committed, the aggregate
\* holds the new values under an updated structure checksum
CommitLooksTheSame ==
    last.op = "commit" =>
        /\ txs[last.tx].committed
        /\ verifyStructureChecksum(criticalData)

\* after a commit() whose write of backup1 failed, memory holds what that
\* file does not
FailedCommitDiverges ==
    /\ CommitWriteFailed
    /\ txs[last.tx].configModified
    /\ readFromFile(files[2]).ret => readFromFile(files[2]).data # criticalData

(***************************************************************************)
(* repairCorruption() and the verifyIntegrity() after it (SpecStored)      *)
(***************************************************************************)
\* checkDataIntegrity() has returned true: verifyIntegrity() was true, or it
\* was false and the repairCorruption() called for it returned true
IntegrityStagePassed == boot.pc = "LOADING_CONFIG" /\ ~boot.failed

CellsSound(data) ==
    /\ ~isCorrupted("cfg", data.configuration)
    /\ ~isCorrupted("cal", data.calibration)
    /\ ~isCorrupted("u32", data.deviceSerial)
    /\ ~isCorrupted("u8", data.firmwareVersion)

\* C38: once repairCorruption() has returned true, verifyIntegrity() is
\* true: the four cells are uncorrupted and the structure checksum matches,
\* also when a stale structure checksum was the only defect.
C38_RepairedVerifies ==
    IntegrityStagePassed => verifyIntegrity(criticalData)

\* repairCorruption() leaves the four cells uncorrupted
RepairMendsCells ==
    IntegrityStagePassed => CellsSound(criticalData)

\* the aggregate came from a file whose only defect is its structure
\* checksum: repairCorruption() returned true and changed nothing
StaleChecksumSurvives ==
    /\ IntegrityStagePassed
    /\ bootManager.status.integrityCheck
    /\ CellsSound(criticalData)
    /\ ~verifyStructureChecksum(criticalData)
    /\ repairCorruption(criticalData).ret
    /\ repairCorruption(criticalData).criticalData = criticalData

(***************************************************************************)
(* verifyIntegrity() after a transaction is closed (Spec)                  *)
(***************************************************************************)
\* C39: on a protector that starts with verifyIntegrity() true, whenever no
\* transaction is open verifyIntegrity() is true; a rolled-back transaction
\* leaves the structure checksum that of the aggregate.
C39_ClosedTransactionVerifies ==
    txOpen = {} => verifyIntegrity(criticalData)

\* the cells stay sound throughout, and right after commit() the whole
\* aggregate verifies
TransactionsKeepCellsSound ==
    /\ CellsSound(criticalData)
    /\ last.op = "commit" => verifyIntegrity(criticalData)

\* a transaction whose update was accepted was rolled back: the value is
\* the one before, the generation counter is not, and the structure
\* checksum is the one of the aggregate before the update
RolledBackStale ==
    /\ txOpen = {}
    /\ last.op = "rollback"
    /\ getConfiguration(criticalData).value = getFactoryConfiguration
    /\ criticalData.configuration.generationCounter
           = CriticalDataProtector.configuration.generationCounter + 2
    /\ criticalData.structureChecksum = CriticalDataProtector.structureChecksum
    /\ ~verifyStructureChecksum(criticalData)

(***************************************************************************)
(* ConfigSafety::validateAndFixCalibration (SpecSafety)                    *)
(***************************************************************************)
\* every key of calib has 0 <= minVal < maxVal <= 4095
SafetyOrdered(calib) ==
    \A i \in 1..NUM_CAL : calib.minVal[i] < calib.maxVal[i] /\ calib.maxVal[i] <= 4095

\* C40: after one call of validateAndFixCalibration every key has
\* minVal[i] < maxVal[i] <= 4095, and every later call returns false and
\* changes nothing.
C40_FixedAtOnce ==
    probe.op = "validateAndFixCalibration" =>
        /\ SafetyOrdered(probe.calibration)
        /\ probe.out.calls >= 2 =>
              ~probe.out.ret /\ probe.calibration = probe.out.before

\* no key was offered with minVal and maxVal both above 4095
SafetyOneInRange(calib) ==
    \A i \in 1..NUM_CAL : calib.minVal[i] <= 4095 \/ calib.maxVal[i] <= 4095

\* with at most one of minVal[i] and maxVal[i] above 4095 for every key,
\* one call does it
FixedAtOnceInRange ==
    (probe.op = "validateAndFixCalibration" /\ SafetyOneInRange(probe.out.offered)) =>
        /\ SafetyOrdered(probe.calibration)
        /\ probe.out.calls >= 2 =>
              ~probe.out.ret /\ probe.calibration = probe.out.before

\* the second call made the calibration ordered; the third changes nothing
FixedAtTwice ==
    (probe.op = "validateAndFixCalibration" /\ probe.out.calls >= 2) =>
        /\ SafetyOrdered(probe.calibration)
        /\ probe.out.calls >= 3 =>
              ~probe.out.ret /\ probe.calibration = probe.out.before

\* minVal[15] = 5000 and maxVal[15] = 6000 were offered: one call leaves
\* minVal[15] = 5000 above maxVal[15] = 4095
SafetyLeftInverted ==
    /\ probe.op = "validateAndFixCalibration"
    /\ probe.out.calls = 1
    /\ probe.out.ret
    /\ probe.out.offered.minVal[NUM_CAL] = 5000
    /\ probe.out.offered.maxVal[NUM_CAL] = 6000
    /\ probe.calibration.minVal[NUM_CAL] = 5000
    /\ probe.calibration.maxVal[NUM_CAL] = 4095

====
